---- MODULE Spec2Model ----
(***************************************************************************)
(* NVMe-oF subsystem control plane of the io-engine                        *)
(* (io-engine/src/subsys/nvmf/subsystem.rs).                               *)
(*                                                                         *)
(* The control reactor is single threaded and cooperative: a task runs     *)
(* from one suspension point (.await) to the next without interruption.    *)
(* Every action below is one such uninterrupted run of a task, or one step *)
(* of the foreign NVMe-oF target (a completion callback, the release of a  *)
(* destroyed subsystem).  Strings the code parses are sequences of         *)
(* characters.                                                             *)
(***************************************************************************)
EXTENDS Integers, Sequences, FiniteSets, TLC

(***************************************************************************)
(* Bounds of the model.                                                    *)
(***************************************************************************)
\* subsystem objects the target allocates in one run (pointers are not reused)
MaxSubsys == 2
\* tasks on the control reactor
NTasks == 2

Ptrs == 1 .. MaxSubsys
Tasks == 1 .. NTasks
NULL == 0

\* uuids (bdev names) the management plane uses
Uuids == {<<"a">>, <<"b">>}
\* the empty string
NoStr == <<>>
Last(seq) == seq[Len(seq)]
Range(seq) == {seq[i] : i \in 1 .. Len(seq)}
\* the NUL character of a string
NUL == "NUL"
\* host NQNs the management plane passes: three well formed ones and one
\* with an interior NUL
HostOrder == <<<<"A">>, <<"B">>, <<"C">>>>
HostNqns == {HostOrder[i] : i \in 1 .. Len(HostOrder)}
BadHostNqn == <<"A", NUL, "B">>
\* longest host list passed to set_allowed_hosts
MaxHostList == 2

(***************************************************************************)
(* Program constants.                                                      *)
(***************************************************************************)
EBUSY == 16
EALREADY == 114
EEXIST == 17
\* the number of namespaces new asks spdk_nvmf_subsystem_create for
NumNs == 1
\* the NSID shutdown_unsafe removes
FirstNsid == 1
\* the retry bound of change_state: `n >= 3`
MaxRetries == 3
\* the sleep between two attempts, in milliseconds
RetryDelayMs == 100

\* constants::NVME_NQN_PREFIX
NVME_NQN_PREFIX == <<"n", "q", "n">>
\* Config::get().nexus_opts.nvmf_replica_port as a transport id
trid_replica == "replica_port"

\* errnos other than EBUSY the foreign target reports
ForeignErrnos == {12}
\* statuses a foreign completion callback carries (0 or a negated errno)
CbStatuses == {0} \cup {-e : e \in ForeignErrnos}
\* values of the environment variable NEXUS_NVMF_ANA_ENABLE
AnaEnvValues == {"unset", "1", "0"}

(***************************************************************************)
(* Errors (subsys::nvmf::Error) and results.                               *)
(***************************************************************************)
ErrSubsystem(source, nqn, msg) ==
    [kind |-> "Subsystem", source |-> source, nqn |-> nqn, msg |-> msg]
ErrSubsystemBusy(nqn, op) ==
    [kind |-> "SubsystemBusy", nqn |-> nqn, op |-> op]
ErrTransport(source, msg) ==
    [kind |-> "Transport", source |-> source, msg |-> msg]
ErrCreateTarget(msg) ==
    [kind |-> "CreateTarget", msg |-> msg]
ErrNamespace(bdev, msg) ==
    [kind |-> "Namespace", bdev |-> bdev, msg |-> msg]
ErrHostCstrNul(host) ==
    [kind |-> "HostCstrNul", host |-> host]
Ok(v) == [kind |-> "Ok", val |-> v]
NoRes == [kind |-> "None"]
IsErr(r) == r.kind \notin {"Ok", "None", "Int"}

\* Errno::from_i32
from_i32(e) == e
\* ffihelper FfiResult for i32: the value handed to the error closure
to_result_errno(rc) == IF rc < 0 THEN -rc ELSE rc

\* Makes an NQN from a UUID.
make_nqn(id) == NVME_NQN_PREFIX \o <<":">> \o id

(***************************************************************************)
(* State.                                                                  *)
(***************************************************************************)
VARIABLES
    heap,       \* Ptrs -> the spdk_nvmf_subsystem object behind each pointer
    tgt,        \* the target's subsystem list, in iteration order
    tasks,      \* Tasks -> the position and locals of each task
    ana_env,    \* NEXUS_NVMF_ANA_ENABLE of the process
    bdevs,      \* the block-device registry, in iteration order
    ctrlrs,     \* Ctrlrs -> the fabric controllers of the connected hosts
    ev,         \* the last subsystem event and what its handler did
    cpl,        \* the last errored completion and what its interceptor did
    thin        \* the pools, replicas and children behind an exported nexus

vars == <<heap, tgt, tasks, ana_env, bdevs, ctrlrs, ev, cpl, thin>>

\* the state of the event path and of the data path
evars == <<bdevs, ctrlrs, ev, cpl, thin>>

NoReq == [fn |-> "none", task |-> 0]

\* a pointer the target has never handed out
NoSubsys ==
    [alloc |-> "never", nqn |-> NoStr, state |-> "Inactive",
     destroying |-> FALSE, changing |-> NoReq, listeners |-> {},
     ns |-> <<>>, sn |-> FALSE, mn |-> FALSE, event_cb |-> FALSE,
     ana_reporting |-> FALSE, allow_any_host |-> FALSE, destroy_calls |-> 0,
     hosts |-> <<>>,
     \* the ANA state set on the replica-port listener (0: none was set)
     ana_state |-> 0]

IdleTask ==
    [pc |-> "idle", op |-> "none", ss |-> NULL, uuid |-> NoStr, n |-> 0,
     rcs |-> <<>>, sleeps |-> 0, waited |-> FALSE, fired |-> FALSE,
     cbst |-> 0, res |-> NoRes, destroy_at |-> "none", created |-> NULL,
     \* the host ACL calls: the argument, hosts_to_disconnect still to do,
     \* and what the call has observed and issued so far
     arg |-> <<>>, todo |-> <<>>, disallowed |-> <<>>,
     disconnects |-> <<>>, fcalls |-> 0, alone |-> TRUE, pending |-> FALSE,
     \* add_namespace: the NSID the foreign call returned
     ns_id |-> 0,
     \* set_ana_reporting: the argument
     enable |-> FALSE,
     \* stop_all: the pointer the iterator holds, the subsystems stop was
     \* called on, and the errors logged
     iter |-> NULL, stopped |-> <<>>, errs |-> 0,
     \* shutdown_unsafe: the calls made, in order, with what they returned
     calls |-> <<>>,
     \* set_allowed_hosts: the entries of the foreign host list the call
     \* has read and removed, in order
     log |-> <<>>,
     \* set_ana_state: the state of the subsystem when the call was made
     called_at |-> "none",
     \* set_allowed_hosts: the call began while another set_allowed_hosts
     \* on the subsystem was suspended
     after |-> FALSE]

(***************************************************************************)
(* The foreign NVMe-oF target, as far as the core observes it              *)
(* (spec sections 3, 4.F and 6).                                           *)
(***************************************************************************)
\* the state the spec's data model names: the destroying flag shown as a state
SpecState(rec) == IF rec.destroying THEN "Destroying" ELSE rec.state

InRegistry(h, tg, nqn) == \E i \in 1 .. Len(tg) : h[tg[i]].nqn = nqn
FreePtrs(h) == {p \in Ptrs : h[p].alloc = "never"}
RefusedRc == -(CHOOSE e \in ForeignErrnos : TRUE)

\* spdk_nvmf_subsystem_create: NULL when the NQN exists or nothing can be allocated
spdk_nvmf_subsystem_create(h, tg, nqn, alloc_ok) ==
    IF alloc_ok /\ ~InRegistry(h, tg, nqn) /\ FreePtrs(h) # {}
    THEN CHOOSE p \in FreePtrs(h) : \A q \in FreePtrs(h) : p <= q
    ELSE NULL

\* n namespace slots, none in use (slot i holds the bdev of NSID i)
RECURSIVE EmptySlots(_)
EmptySlots(n) == IF n = 0 THEN <<>> ELSE Append(EmptySlots(n - 1), NoStr)
\* the NSIDs in use and the free ones
UsedNsids(rec) == {i \in 1 .. Len(rec.ns) : rec.ns[i] # NoStr}
FreeNsids(rec) == {i \in 1 .. Len(rec.ns) : rec.ns[i] = NoStr}

\* a freshly allocated NVMe-type subsystem with room for num_ns namespaces
NewSubsystem(nqn, num_ns) ==
    [NoSubsys EXCEPT !.alloc = "live", !.nqn = nqn, !.ns = EmptySlots(num_ns)]

\* a bdev is claimed while it is the namespace of a subsystem
is_claimed(h, bdev) ==
    \E p \in Ptrs : h[p].alloc = "live" /\ bdev \in Range(h[p].ns)

\* spdk_nvmf_subsystem_add_ns_ext: the NSID, 0 on failure
spdk_nvmf_subsystem_add_ns_ext(h, s, bdev, ok) ==
    IF ok /\ FreeNsids(h[s]) # {} /\ ~is_claimed(h, bdev) /\ ~h[s].destroying
          /\ h[s].state \in {"Inactive", "Paused"} /\ h[s].changing = NoReq
    THEN LET nsid == CHOOSE i \in FreeNsids(h[s]) :
                         \A j \in FreeNsids(h[s]) : i <= j
         IN  [heap |-> [h EXCEPT ![s].ns = [@ EXCEPT ![nsid] = bdev]],
              rc |-> nsid]
    ELSE [heap |-> h, rc |-> 0]

\* spdk_nvmf_subsystem_remove_ns(ss, 1)
spdk_nvmf_subsystem_remove_ns(h, s) ==
    IF FirstNsid \in UsedNsids(h[s]) /\ h[s].state \in {"Inactive", "Paused"}
          /\ h[s].changing = NoReq
    THEN [heap |-> [h EXCEPT ![s].ns = [@ EXCEPT ![FirstNsid] = NoStr]],
          rc |-> 0]
    ELSE [heap |-> h, rc |-> -1]

\* spdk_nvmf_subsystem_destroy: legal in Inactive and Paused, refused otherwise
spdk_nvmf_subsystem_destroy(h, s) ==
    LET h1 == [h EXCEPT ![s].destroy_calls = IF @ < 2 THEN @ + 1 ELSE @] IN
    IF h[s].destroying THEN [heap |-> h1, rc |-> -EALREADY]
    ELSE IF h[s].state \in {"Inactive", "Paused"} /\ h[s].changing = NoReq
    THEN [heap |-> [h1 EXCEPT ![s].destroying = TRUE], rc |-> 0]
    ELSE [heap |-> h1, rc |-> RefusedRc]

\* the state a transition function drives the subsystem to
TransitionTarget(fn) ==
    CASE fn = "spdk_nvmf_subsystem_start" -> "Active"
      [] fn = "spdk_nvmf_subsystem_stop" -> "Inactive"
      [] fn = "spdk_nvmf_subsystem_pause" -> "Paused"
      [] fn = "spdk_nvmf_subsystem_resume" -> "Active"

\* the legal transitions of spec section 4.F
LegalFrom(state, fn) ==
    CASE fn = "spdk_nvmf_subsystem_start" -> state = "Inactive"
      [] fn = "spdk_nvmf_subsystem_stop" -> state \in {"Active", "Paused"}
      [] fn = "spdk_nvmf_subsystem_pause" -> state = "Active"
      [] fn = "spdk_nvmf_subsystem_resume" -> state = "Paused"

ForeignTransitionReturns_Overlaps(rec, fn) ==
    {-EBUSY} \cup {-e : e \in ForeignErrnos}
    \cup (IF ~rec.destroying /\ LegalFrom(rec.state, fn) THEN {0} ELSE {})

\* what a transition function may return: -EBUSY while a transition is in
\* flight (one the core requested or one of the target's own), 0 when it
\* accepts the request, another negated errno when it refuses it
ForeignTransitionReturns(rec, fn) ==
    IF rec.changing # NoReq THEN {-EBUSY}
    ELSE {-EBUSY} \cup {-e : e \in ForeignErrnos}
         \cup (IF ~rec.destroying /\ LegalFrom(rec.state, fn) THEN {0} ELSE {})

(***************************************************************************)
(* NvmfSubsystem: construction and destruction (synchronous functions).    *)
(***************************************************************************)
\* what the foreign calls of one construction return; a call after the first
\* failing one is not made, so only the first failure is enumerated
NewAllOk == [alloc_ok |-> TRUE, sn_rc |-> 0, mn_rc |-> 0]
NewOutcomes ==
    {NewAllOk,
     [NewAllOk EXCEPT !.alloc_ok = FALSE],
     [NewAllOk EXCEPT !.sn_rc = -1],
     [NewAllOk EXCEPT !.mn_rc = -1]}

\* mutant: the null pointer of a refused allocation is not checked
NewAllocResult_NoNullCheck(ptr, uuid) == Ok(ptr)

\* NvmfSubsystem::new, the allocation: `.to_result(|_| Error::Subsystem {EEXIST})?`
NewAllocResult(ptr, uuid) ==
    IF ptr = NULL
    THEN ErrSubsystem(from_i32(EEXIST), uuid, "ss ptr is null")
    ELSE Ok(ptr)

\* NvmfSubsystem::new
SubsystemNew(h, tg, uuid, fo) ==
    LET nqn == make_nqn(uuid)
        ptr == spdk_nvmf_subsystem_create(h, tg, nqn, fo.alloc_ok)
        ar == NewAllocResult(ptr, uuid)
        \* the subsystem exists and is registered from here on
        h1 == [h EXCEPT ![ptr] = [NewSubsystem(nqn, NumNs) EXCEPT !.event_cb = TRUE]]
        tg1 == Append(tg, ptr)
        h2 == [h1 EXCEPT ![ptr].sn = TRUE]
        h3 == [h2 EXCEPT ![ptr].mn = TRUE]
    IN  IF IsErr(ar) \/ ptr = NULL
        THEN [heap |-> h, tgt |-> tg, ss |-> ptr, res |-> ar]
        ELSE IF fo.sn_rc # 0
        THEN [heap |-> h1, tgt |-> tg1, ss |-> ptr,
              res |-> ErrSubsystem(from_i32(to_result_errno(fo.sn_rc)), uuid,
                                   "failed to set serial")]
        ELSE IF fo.mn_rc # 0
        THEN [heap |-> h2, tgt |-> tg1, ss |-> ptr,
              res |-> ErrSubsystem(from_i32(to_result_errno(fo.mn_rc)), uuid,
                                   "failed to set model number")]
        ELSE [heap |-> h3, tgt |-> tg1, ss |-> ptr, res |-> Ok(ptr)]

\* NvmfSubsystem::destroy_unsafe
destroy_unsafe(h, s) ==
    IF h[s].destroying
    THEN [heap |-> h, rc |-> -EALREADY]
    ELSE spdk_nvmf_subsystem_destroy(h, s)

shutdown_unsafe_StopsOnError(h, s) ==
    LET r == spdk_nvmf_subsystem_remove_ns(h, s)
        d == destroy_unsafe(r.heap, s)
    IN  IF r.rc # 0
        THEN [heap |-> r.heap, rc |-> r.rc,
              calls |-> <<[fn |-> "spdk_nvmf_subsystem_remove_ns",
                           nsid |-> FirstNsid, rc |-> r.rc]>>]
        ELSE [heap |-> d.heap, rc |-> d.rc,
              calls |-> <<[fn |-> "spdk_nvmf_subsystem_remove_ns",
                           nsid |-> FirstNsid, rc |-> r.rc],
                          [fn |-> "destroy_unsafe", rc |-> d.rc]>>]

\* NvmfSubsystem::shutdown_unsafe; calls lists the calls it makes, in order
shutdown_unsafe(h, s) ==
    LET r == spdk_nvmf_subsystem_remove_ns(h, s)
        d == destroy_unsafe(r.heap, s)
    IN  [heap |-> d.heap, rc |-> d.rc,
         calls |-> <<[fn |-> "spdk_nvmf_subsystem_remove_ns",
                      nsid |-> FirstNsid, rc |-> r.rc],
                     [fn |-> "destroy_unsafe", rc |-> d.rc]>>]

set_ana_reporting_NoGate(h, s, enable, env, rc) ==
    IF rc # 0
    THEN [heap |-> h, calls |-> 1,
          res |-> ErrSubsystem(from_i32(to_result_errno(rc)), h[s].nqn,
                               "failed to set ANA reporting")]
    ELSE [heap |-> [h EXCEPT ![s].ana_reporting = enable], calls |-> 1,
          res |-> Ok(NULL)]

\* NvmfSubsystem::set_ana_reporting; calls counts the foreign calls made
set_ana_reporting(h, s, enable, env, rc) ==
    IF env # "1"
    THEN [heap |-> h, calls |-> 0, res |-> Ok(NULL)]
    ELSE IF rc # 0
    THEN [heap |-> h, calls |-> 1,
          res |-> ErrSubsystem(from_i32(to_result_errno(rc)), h[s].nqn,
                               "failed to set ANA reporting")]
    ELSE [heap |-> [h EXCEPT ![s].ana_reporting = enable], calls |-> 1,
          res |-> Ok(NULL)]

\* NvmfSubsystem::allow_any
allow_any(h, s, enable) == [h EXCEPT ![s].allow_any_host = enable]

\* mutant: NSID 0, the failure of the foreign call, is taken for success
AddNamespaceResult_ZeroIsOk(ns_id, bdev) ==
    IF ns_id < 0
    THEN ErrNamespace(bdev, "failed to add namespace ID")
    ELSE Ok(NULL)

\* add_namespace: `if ns_id < 1 { Err(Error::Namespace {..}) } else { Ok(()) }`
AddNamespaceResult(ns_id, bdev) ==
    IF ns_id < 1
    THEN ErrNamespace(bdev, "failed to add namespace ID")
    ELSE Ok(NULL)

\* NvmfSubsystem::add_namespace (nsid 0 in the options: the target picks the NSID)
add_namespace(h, s, bdev, ok) ==
    LET r == spdk_nvmf_subsystem_add_ns_ext(h, s, bdev, ok) IN
    [heap |-> r.heap, ns_id |-> r.rc, res |-> AddNamespaceResult(r.rc, bdev)]

\* NvmfSubsystem::bdev: the device of the first namespace, NoStr for None
bdev_of(h, s) ==
    IF UsedNsids(h[s]) = {} THEN NoStr
    ELSE h[s].ns[CHOOSE i \in UsedNsids(h[s]) : \A j \in UsedNsids(h[s]) : i <= j]

\* what the foreign calls of one try_from_with return
TryFromAllOk == [new |-> NewAllOk, ana_rc |-> 0, ns_ok |-> TRUE]
TryFromOutcomes ==
    {[TryFromAllOk EXCEPT !.new = n] : n \in NewOutcomes}
    \cup {[TryFromAllOk EXCEPT !.ana_rc = -1],
          [TryFromAllOk EXCEPT !.ns_ok = FALSE]}

\* NvmfSubsystem::try_from_with
try_from_with(h, tg, bdev, env, fo) ==
    IF is_claimed(h, bdev)
    THEN [heap |-> h, tgt |-> tg, ss |-> NULL, destroy_at |-> "none",
          res |-> ErrCreateTarget("already shared")]
    ELSE
    LET n == SubsystemNew(h, tg, bdev, fo.new) IN
    \* `new(uuid)?`; there is no handle to go on with without a subsystem
    IF IsErr(n.res) \/ n.ss = NULL
    THEN [heap |-> n.heap, tgt |-> n.tgt, ss |-> n.ss, destroy_at |-> "none",
          res |-> n.res]
    ELSE
    LET a == set_ana_reporting(n.heap, n.ss, FALSE, env, fo.ana_rc) IN
    IF IsErr(a.res)
    THEN [heap |-> a.heap, tgt |-> n.tgt, ss |-> n.ss, destroy_at |-> "none",
          res |-> a.res]
    ELSE
    LET h1 == allow_any(a.heap, n.ss, FALSE)
        ns == add_namespace(h1, n.ss, bdev, fo.ns_ok)
    IN  IF IsErr(ns.res)
        THEN [heap |-> destroy_unsafe(ns.heap, n.ss).heap, tgt |-> n.tgt,
              ss |-> n.ss, destroy_at |-> SpecState(ns.heap[n.ss]),
              res |-> ns.res]
        ELSE [heap |-> ns.heap, tgt |-> n.tgt, ss |-> n.ss,
              destroy_at |-> "none", res |-> Ok(n.ss)]

(***************************************************************************)
(* Host ACL: the allowed-host list of the foreign target and the core's    *)
(* operations on it.                                                       *)
(***************************************************************************)
Without(seq, x) == SelectSeq(seq, LAMBDA y : y # x)

\* the list of the hosts of S in the order the target keeps them in
HostList(S) == SelectSeq(HostOrder, LAMBDA x : x \in S)

\* spdk_nvmf_subsystem_add_host: adding a host that is allowed changes nothing
spdk_nvmf_subsystem_add_host(h, s, host, ok) ==
    IF ~ok THEN [heap |-> h, rc |-> RefusedRc]
    ELSE [heap |-> [h EXCEPT ![s].hosts = HostList(Range(@) \cup {host})],
          rc |-> 0]

\* spdk_nvmf_subsystem_remove_host: refused for a host that is not allowed
spdk_nvmf_subsystem_remove_host(h, s, host, ok) ==
    IF ok /\ host \in Range(h[s].hosts)
    THEN [heap |-> [h EXCEPT ![s].hosts = Without(@, host)], rc |-> 0]
    ELSE [heap |-> h, rc |-> RefusedRc]

\* mutant: the NQN is handed on without the check for an interior NUL
cstr_NoCheck(host) == Ok(host)

\* NvmfSubsystem::cstr: CString::new fails on an interior NUL
cstr(host) ==
    IF \E i \in 1 .. Len(host) : host[i] = NUL
    THEN ErrHostCstrNul(host)
    ELSE Ok(host)

\* NvmfSubsystem::allowed_hosts
allowed_hosts(h, s) == h[s].hosts

\* NvmfSubsystem::allow_host; `calls` counts the foreign calls made
allow_host(h, s, host, ok) ==
    LET c == cstr(host)
        r == spdk_nvmf_subsystem_add_host(h, s, c.val, ok)
    IN  IF IsErr(c) THEN [heap |-> h, res |-> c, calls |-> 0]
        ELSE IF r.rc # 0
        THEN [heap |-> r.heap, calls |-> 1,
              res |-> ErrSubsystem(from_i32(to_result_errno(r.rc)), h[s].nqn,
                                   <<"failed to add allowed host: ", host>>)]
        ELSE [heap |-> r.heap, res |-> Ok(NULL), calls |-> 1]

\* NvmfSubsystem::allow_hosts: the hosts in order, up to the first error;
\* the foreign target refuses the call number `fail` (0: none)
RECURSIVE allow_hosts(_, _, _, _)
allow_hosts(h, s, hosts, fail) ==
    IF hosts = <<>> THEN [heap |-> h, res |-> Ok(NULL), calls |-> 0]
    ELSE LET a == allow_host(h, s, Head(hosts), fail # 1)
             rest == allow_hosts(a.heap, s, Tail(hosts),
                                 IF fail = 0 \/ a.calls = 0 THEN fail ELSE fail - 1)
         IN  IF IsErr(a.res) THEN a
             ELSE [rest EXCEPT !.calls = @ + a.calls]

\* NvmfSubsystem::disallow_host
disallow_host(h, s, host, ok) ==
    LET c == cstr(host)
        r == spdk_nvmf_subsystem_remove_host(h, s, c.val, ok)
    IN  IF IsErr(c) THEN [heap |-> h, res |-> c, calls |-> 0]
        ELSE IF r.rc # 0
        THEN [heap |-> r.heap, calls |-> 1,
              res |-> ErrSubsystem(from_i32(to_result_errno(r.rc)), h[s].nqn,
                                   <<"failed to remove allowed host: ", host>>)]
        ELSE [heap |-> r.heap, res |-> Ok(NULL), calls |-> 1]

\* mutants of the traversal: every allowed host is collected; the hosts of
\* the argument are collected
hosts_to_disconnect_All(h, s, hosts) == h[s].hosts
hosts_to_disconnect_Args(h, s, hosts) == hosts

\* set_allowed_hosts: the traversal that copies the NQNs of the hosts to remove
hosts_to_disconnect(h, s, hosts) ==
    SelectSeq(h[s].hosts, LAMBDA x : x \notin Range(hosts))

\* set_allowed_hosts: the entries the traversal reads, first to last
hosts_read(h, s) ==
    [i \in 1 .. Len(h[s].hosts) |-> [kind |-> "read", host |-> h[s].hosts[i]]]

\* disconnect_host: `r.await.to_result(|error| Error::Subsystem {..})`
DisconnectResult(status, host) ==
    IF status = 0
    THEN Ok(NULL)
    ELSE ErrSubsystem(from_i32(to_result_errno(status)), host,
                      "Failed to disconnect host")

(***************************************************************************)
(* The State-Change Engine and the lifecycle operations (async functions). *)
(***************************************************************************)
\* the transition function each lifecycle operation hands to change_state
start_fn == "spdk_nvmf_subsystem_start"
stop_fn == "spdk_nvmf_subsystem_stop"
\* mutant: pause hands the stop function to change_state
pause_fn_Stop == "spdk_nvmf_subsystem_stop"
pause_fn == "spdk_nvmf_subsystem_pause"
resume_fn == "spdk_nvmf_subsystem_resume"

OpFn(op) ==
    CASE op = "start" -> start_fn
      [] op = "stop" -> stop_fn
      [] op = "pause" -> pause_fn
      [] op = "resume" -> resume_fn

\* mutants of the loop exit: one retry too many; a retry on every refusal
ShouldBreak_OneMore(rc, n) == rc # EBUSY \/ n > MaxRetries
ShouldBreak_RetryAny(rc, n) == rc = 0 \/ n >= MaxRetries

\* change_state: `if rc != libc::EBUSY || n >= 3 { break (rc, r); }`
ShouldBreak(rc, n) == rc # EBUSY \/ n >= MaxRetries

\* change_state, `match rc` for a request that was not accepted
ChangeStateRefused(rc, nqn, op) ==
    IF rc = EBUSY
    THEN ErrSubsystemBusy(nqn, op)
    ELSE ErrSubsystem(from_i32(rc), nqn, "failed to initiate " \o op)

\* mutant: the status of the callback is taken for an error whatever it is
ChangeStateAwaited_AlwaysErr(status, nqn, op) ==
    ErrSubsystem(from_i32(to_result_errno(status)), nqn, op \o " failed")

\* mutant: the status the callback delivered is dropped
ChangeStateAwaited_IgnoreStatus(status, nqn, op) == Ok(NULL)

\* change_state, `0 => r.await.unwrap().to_result(..)`
ChangeStateAwaited(status, nqn, op) ==
    IF status = 0
    THEN Ok(NULL)
    ELSE ErrSubsystem(from_i32(to_result_errno(status)), nqn, op \o " failed")

\* add_listener: `r.await.expect(..).to_result(|e| Error::Transport {..})`
AddListenerResult(status) ==
    IF status = 0
    THEN Ok(NULL)
    ELSE ErrTransport(from_i32(to_result_errno(status)), "Failed to add listener")

\* start, after change_state returned `r`: destroy on failure, the NQN on success
StartFinish(h, tk, r) ==
    IF IsErr(r)
    THEN [heap |-> shutdown_unsafe(h, tk.ss).heap,
          task |-> [tk EXCEPT !.pc = "done", !.res = r,
                              !.destroy_at = SpecState(h[tk.ss])]]
    ELSE [heap |-> h,
          task |-> [tk EXCEPT !.pc = "done", !.res = Ok(h[tk.ss].nqn)]]

\* mutant: the operation waits for a callback where change_state returned
Finish_WaitsAgain(h, tk, r) ==
    [heap |-> h, task |-> [tk EXCEPT !.pc = "state_wait", !.fired = FALSE]]

\* the return of change_state to the lifecycle operation that called it
Finish(h, tk, r) ==
    IF tk.op = "start"
    THEN StartFinish(h, tk, r)
    ELSE [heap |-> h, task |-> [tk EXCEPT !.pc = "done", !.res = r]]

\* change_state: one pass of the loop, from the call of `f` to the next
\* suspension point (the sleep, the wait for the callback) or to the return
ChangeStateAttempt(t, tk) ==
    LET s == tk.ss
        fn == OpFn(tk.op)
    IN  \E ret \in ForeignTransitionReturns(heap[s], fn) :
        LET rc == -ret
            h1 == IF ret = 0
                  THEN [heap EXCEPT ![s].changing = [fn |-> fn, task |-> t]]
                  ELSE heap
            tk1 == [tk EXCEPT !.rcs = Append(@, rc)]
            fin == Finish(h1, tk1, ChangeStateRefused(rc, heap[s].nqn, tk.op))
        IN  IF ~ShouldBreak(rc, tk.n)
            THEN /\ heap' = h1
                 /\ tasks' = [tasks EXCEPT ![t] =
                        [tk1 EXCEPT !.n = @ + 1, !.sleeps = @ + 1,
                                    !.pc = "sleep"]]
            ELSE IF rc = 0
            THEN /\ heap' = h1
                 /\ tasks' = [tasks EXCEPT ![t] =
                        [tk1 EXCEPT !.pc = "state_wait", !.waited = TRUE,
                                    !.fired = FALSE]]
            ELSE /\ heap' = fin.heap
                 /\ tasks' = [tasks EXCEPT ![t] = fin.task]

Idle(t) == tasks[t].pc = "idle"
LivePtrs == {p \in Ptrs : heap[p].alloc = "live"}
\* a task is between the call and the return of an operation on s
InUse(s) == \E t \in Tasks : tasks[t].ss = s /\ tasks[t].pc \notin {"idle", "done"}

(***************************************************************************)
(* Actions of the tasks.                                                   *)
(***************************************************************************)
\* NvmfSubsystem::new(uuid)
New(t) ==
    /\ Idle(t)
    /\ \E uuid \in Uuids, fo \in NewOutcomes :
        LET r == SubsystemNew(heap, tgt, uuid, fo) IN
        /\ heap' = r.heap
        /\ tgt' = r.tgt
        /\ tasks' = [tasks EXCEPT ![t] =
               [IdleTask EXCEPT !.pc = "done", !.op = "new", !.uuid = uuid,
                                !.ss = r.ss, !.created = r.ss, !.res = r.res]]
    /\ UNCHANGED <<ana_env, evars>>

\* NvmfSubsystem::try_from_with(bdev, ptpl)
TryFromWith(t) ==
    /\ Idle(t)
    /\ \E bdev \in Uuids, fo \in TryFromOutcomes :
        LET r == try_from_with(heap, tgt, bdev, ana_env, fo) IN
        /\ heap' = r.heap
        /\ tgt' = r.tgt
        /\ tasks' = [tasks EXCEPT ![t] =
               [IdleTask EXCEPT !.pc = "done", !.op = "try_from_with",
                                !.uuid = bdev, !.ss = r.ss, !.created = r.ss,
                                !.res = r.res, !.destroy_at = r.destroy_at]]
    /\ UNCHANGED <<ana_env, evars>>

\* add_namespace(bdev, ptpl) on a subsystem that exists
AddNamespace(t) ==
    /\ Idle(t)
    /\ \E s \in LivePtrs, bdev \in Uuids, ok \in BOOLEAN :
        LET r == add_namespace(heap, s, bdev, ok) IN
        /\ heap' = r.heap
        /\ tasks' = [tasks EXCEPT ![t] =
               [IdleTask EXCEPT !.pc = "done", !.op = "add_namespace",
                                !.ss = s, !.uuid = bdev, !.ns_id = r.ns_id,
                                !.res = r.res]]
    /\ UNCHANGED <<tgt, ana_env, evars>>

\* start(self), up to the wait for the listener callback
Start(t) ==
    /\ Idle(t)
    /\ \E s \in LivePtrs :
        tasks' = [tasks EXCEPT ![t] =
            [IdleTask EXCEPT !.pc = "listen_wait", !.op = "start", !.ss = s]]
    /\ UNCHANGED <<heap, tgt, ana_env, evars>>

\* start(self), from the listener callback to the next suspension point
StartListened(t) ==
    /\ tasks[t].pc = "listen_wait"
    /\ tasks[t].fired
    /\ LET r == AddListenerResult(tasks[t].cbst) IN
       IF IsErr(r)
       THEN /\ tasks' = [tasks EXCEPT ![t].pc = "done", ![t].res = r]
            /\ UNCHANGED heap
       ELSE ChangeStateAttempt(t, [tasks[t] EXCEPT !.fired = FALSE])
    /\ UNCHANGED <<tgt, ana_env, evars>>

\* stop(&self), pause(&self), resume(&self), up to the first suspension point
Stop(t) ==
    /\ Idle(t)
    /\ \E s \in LivePtrs :
        ChangeStateAttempt(t, [IdleTask EXCEPT !.op = "stop", !.ss = s])
    /\ UNCHANGED <<tgt, ana_env, evars>>

Pause(t) ==
    /\ Idle(t)
    /\ \E s \in LivePtrs :
        ChangeStateAttempt(t, [IdleTask EXCEPT !.op = "pause", !.ss = s])
    /\ UNCHANGED <<tgt, ana_env, evars>>

Resume(t) ==
    /\ Idle(t)
    /\ \E s \in LivePtrs :
        ChangeStateAttempt(t, [IdleTask EXCEPT !.op = "resume", !.ss = s])
    /\ UNCHANGED <<tgt, ana_env, evars>>

\* change_state: the sleep is over, the next attempt
Retry(t) ==
    /\ tasks[t].pc = "sleep"
    /\ ChangeStateAttempt(t, tasks[t])
    /\ UNCHANGED <<tgt, ana_env, evars>>

\* change_state: the callback has fired, the task runs on to the return
ChangeStateDone(t) ==
    /\ tasks[t].pc = "state_wait"
    /\ tasks[t].fired
    /\ LET tk == tasks[t]
           fin == Finish(heap, [tk EXCEPT !.fired = FALSE],
                         ChangeStateAwaited(tk.cbst, heap[tk.ss].nqn, tk.op))
       IN  /\ heap' = fin.heap
           /\ tasks' = [tasks EXCEPT ![t] = fin.task]
    /\ UNCHANGED <<tgt, ana_env, evars>>

\* shutdown_unsafe(&self), called as its safety section demands: on a
\* subsystem that is paused or stopped and that no other task operates on
ShutdownUnsafe(t) ==
    /\ Idle(t)
    /\ \E s \in LivePtrs :
        /\ heap[s].state \in {"Inactive", "Paused"}
        /\ heap[s].changing = NoReq
        /\ ~InUse(s)
        /\ LET r == shutdown_unsafe(heap, s) IN
           /\ heap' = r.heap
           /\ tasks' = [tasks EXCEPT ![t] =
                  [IdleTask EXCEPT !.pc = "done", !.op = "shutdown_unsafe",
                                   !.ss = s, !.res = [kind |-> "Int", val |-> r.rc],
                                   !.calls = r.calls,
                                   !.destroy_at = SpecState(heap[s])]]
    /\ UNCHANGED <<tgt, ana_env, evars>>

\* the caller takes the result
Return(t) ==
    /\ tasks[t].pc = "done"
    /\ tasks' = [tasks EXCEPT ![t] = IdleTask]
    /\ UNCHANGED <<heap, tgt, ana_env, evars>>

(***************************************************************************)
(* Steps of the foreign target.                                            *)
(***************************************************************************)
\* mutant: both ports are enabled, the nexus port next to the replica port
ListenerDone_BothPorts(t) ==
    /\ tasks[t].pc = "listen_wait"
    /\ ~tasks[t].fired
    /\ \E status \in CbStatuses :
        /\ heap' = IF status = 0
                   THEN [heap EXCEPT ![tasks[t].ss].listeners =
                                        @ \cup {trid_replica, "nexus_port"}]
                   ELSE heap
        /\ tasks' = [tasks EXCEPT ![t].fired = TRUE, ![t].cbst = status]
    /\ UNCHANGED <<tgt, ana_env, evars>>

\* the callback of spdk_nvmf_subsystem_add_listener fires (listen_cb)
ListenerDone(t) ==
    /\ tasks[t].pc = "listen_wait"
    /\ ~tasks[t].fired
    /\ \E status \in CbStatuses :
        /\ heap' = IF status = 0
                   THEN [heap EXCEPT ![tasks[t].ss].listeners = @ \cup {trid_replica}]
                   ELSE heap
        /\ tasks' = [tasks EXCEPT ![t].fired = TRUE, ![t].cbst = status]
    /\ UNCHANGED <<tgt, ana_env, evars>>

\* a transition in flight completes and its callback fires (state_change_cb)
StateChangeDone(s) ==
    /\ heap[s].alloc = "live"
    /\ heap[s].changing # NoReq
    /\ \E status \in CbStatuses :
        LET req == heap[s].changing IN
        /\ heap' = [heap EXCEPT ![s].changing = NoReq,
                                ![s].state = IF status = 0
                                             THEN TransitionTarget(req.fn)
                                             ELSE @]
        /\ tasks' = [tasks EXCEPT ![req.task].fired = TRUE,
                                  ![req.task].cbst = status]
    /\ UNCHANGED <<tgt, ana_env, evars>>

RemoveOne(seq, x) == SelectSeq(seq, LAMBDA y : y # x)

\* a subsystem whose destruction was initiated is released
SubsystemFreed(s) ==
    /\ heap[s].alloc = "live"
    /\ heap[s].destroying
    /\ ~InUse(s)
    /\ heap' = [heap EXCEPT ![s] = [NoSubsys EXCEPT !.alloc = "freed"]]
    /\ tgt' = RemoveOne(tgt, s)
    /\ UNCHANGED <<tasks, ana_env, evars>>

(***************************************************************************)
(* The event path: NVMe completion statuses and the completion             *)
(* interceptors the core installs on the fabric controllers.               *)
(***************************************************************************)
\* fabric controllers (one connected host each)
MaxCtrlrs == 2
Ctrlrs == 1 .. MaxCtrlrs

SPDK_NVME_SCT_GENERIC == 0
SPDK_NVME_SCT_VENDOR_SPECIFIC == 7
SPDK_NVME_SC_CAPACITY_EXCEEDED == 129
SPDK_NVME_SC_RESERVATION_CONFLICT == 131
ENOSPC == 28

\* the status field of a completion: status code type, status code, command
\* retry delay (two bits) and do-not-retry
Scts == {SPDK_NVME_SCT_GENERIC, 1, SPDK_NVME_SCT_VENDOR_SPECIFIC}
Scs == {0, ENOSPC, SPDK_NVME_SC_CAPACITY_EXCEEDED,
        SPDK_NVME_SC_RESERVATION_CONFLICT}
Crds == 0 .. 3
Statuses == [sct : Scts, sc : Scs, crd : Crds, dnr : BOOLEAN]

\* status.status(): the status as an NvmeStatus value
NvmeStatusOf(status) ==
    CASE status.sct = SPDK_NVME_SCT_GENERIC -> <<"Generic", status.sc>>
      [] status.sct = SPDK_NVME_SCT_VENDOR_SPECIFIC ->
            <<"VendorSpecific", status.sc>>
      [] OTHER -> <<"Other", status.sct, status.sc>>

\* NvmeStatus::is_no_space(): the vendor specific ENOSPC
is_no_space(nvme_status) == nvme_status = <<"VendorSpecific", ENOSPC>>

nexus_cpl_error_cb_AnyCrd(status) ==
    IF NvmeStatusOf(status) \in
          {<<"Generic", SPDK_NVME_SC_RESERVATION_CONFLICT>>,
           <<"Generic", SPDK_NVME_SC_CAPACITY_EXCEEDED>>}
    THEN [status EXCEPT !.crd = 2]
    ELSE status

\* nexus_cpl_error_cb(req, _): the status the completion is left with
nexus_cpl_error_cb(status) ==
    IF status.crd = 0
    THEN status
    ELSE IF NvmeStatusOf(status) \in
               {<<"Generic", SPDK_NVME_SC_RESERVATION_CONFLICT>>,
                <<"Generic", SPDK_NVME_SC_CAPACITY_EXCEEDED>>}
         THEN [status EXCEPT !.crd = 2]
         ELSE status

replica_cpl_error_cb_KeepsSc(status) ==
    LET st1 == IF status.crd = 1 THEN [status EXCEPT !.crd = 3] ELSE status
    IN  IF is_no_space(NvmeStatusOf(st1))
        THEN [st1 EXCEPT !.sct = SPDK_NVME_SCT_GENERIC]
        ELSE st1

\* replica_cpl_error_cb(req, _): the status the completion is left with
replica_cpl_error_cb(status) ==
    LET st1 == IF status.crd = 1 THEN [status EXCEPT !.crd = 3] ELSE status
    IN  IF is_no_space(NvmeStatusOf(st1))
        THEN [st1 EXCEPT !.sct = SPDK_NVME_SCT_GENERIC,
                         !.sc = SPDK_NVME_SC_CAPACITY_EXCEEDED]
        ELSE st1

\* the cpl_error_cb slot of a controller
CplErrorCbs == {"none", "nexus_cpl_error_cb", "replica_cpl_error_cb"}

NoCtrlr == [cpl_error_cb |-> "none"]
\* ctrlr.hostnqn()
hostnqn(c) == HostOrder[c]

NoEvent ==
    [kind |-> "none", ctrlr |-> 0, nqn |-> NoStr, target |-> "None",
     calls |-> <<>>, returned |-> FALSE]
NoCpl == [by |-> "none", ctrlr |-> 0]

\* thin provisioning: pools and replicas are sized in clusters; pool i holds
\* replica i, the child i of the nexus, and may hold a thick filler replica
MaxClusters == 3
MaxChildren == 2
Clusters == 1 .. MaxClusters
Children == 1 .. MaxChildren
SPDK_NVME_SC_SUCCESS == 0
EIO == 5

ChildOnline == [state |-> "Online", reason |-> "None"]
ChildDegraded(reason) == [state |-> "Degraded", reason |-> reason]
NoChild == [state |-> "none", reason |-> "None"]
NoWrite == [kind |-> "none", child |-> 0, range |-> {}, errno |-> 0]

\* no nexus; `good` tells that a write has succeeded, `freed` the pools
\* whose filler was destroyed, `wr` the last operation
NoThin ==
    [n |-> 0, size |-> 0, cap |-> [i \in Children |-> 0],
     filler |-> [i \in Children |-> 0], alloc |-> [i \in Children |-> {}],
     child |-> [i \in Children |-> NoChild], good |-> FALSE, freed |-> {},
     wr |-> NoWrite]

SuccessStatus ==
    [sct |-> SPDK_NVME_SCT_GENERIC, sc |-> SPDK_NVME_SC_SUCCESS, crd |-> 0,
     dnr |-> FALSE]
\* the completion of a write a pool has no cluster left for
NoSpaceStatus(crd) ==
    [sct |-> SPDK_NVME_SCT_VENDOR_SPECIFIC, sc |-> ENOSPC, crd |-> crd,
     dnr |-> FALSE]

\* the clusters pool i has left: a thick replica holds its size from its
\* creation, a thin one the clusters written so far
pool_free(th, i) == th.cap[i] - th.filler[i] - Cardinality(th.alloc[i])

\* the first k clusters of S
FirstOf(S, k) == {c \in S : Cardinality({d \in S : d < c}) < k}

\* a write to the thin replica i: clusters are allocated as the write goes,
\* and the write fails with no space when the pool runs out; the completion
\* leaves the replica through its interceptor
replica_write(th, i, range, crd) ==
    LET need == range \ th.alloc[i] IN
    IF Cardinality(need) <= pool_free(th, i)
    THEN [alloc |-> th.alloc[i] \cup range, status |-> SuccessStatus]
    ELSE [alloc |-> th.alloc[i] \cup FirstOf(need, pool_free(th, i)),
          status |-> replica_cpl_error_cb(NoSpaceStatus(crd))]

\* what the nexus takes a failed child write for
child_fault_reason(status) ==
    IF \/ is_no_space(NvmeStatusOf(status))
       \/ NvmeStatusOf(status) = <<"Generic", SPDK_NVME_SC_CAPACITY_EXCEEDED>>
    THEN "NoSpace"
    ELSE "IoError"

\* mutant: the write fails when any child fails
nexus_write_AllOrNothing(th, range, crd) ==
    LET healthy == {i \in 1 .. th.n : th.child[i].state = "Online"}
        r == [i \in healthy |-> replica_write(th, i, range, crd)]
        failed == {i \in healthy : r[i].status # SuccessStatus}
        first == CHOOSE i \in failed : \A j \in failed : i <= j
        alloc1 == [i \in Children |->
                     IF i \in healthy THEN r[i].alloc ELSE th.alloc[i]]
    IN  IF failed = {}
        THEN [thin |-> [th EXCEPT !.alloc = alloc1, !.good = TRUE],
              status |-> SuccessStatus]
        ELSE [thin |-> [th EXCEPT !.alloc = alloc1],
              status |-> r[first].status]

\* a write to the nexus goes to every healthy child. It succeeds when a child
\* has it; the children that failed are faulted and stay children. When no
\* child has it, the write fails with the status of the first child and the
\* children stay as they are
nexus_write(th, range, crd) ==
    LET healthy == {i \in 1 .. th.n : th.child[i].state = "Online"}
        r == [i \in healthy |-> replica_write(th, i, range, crd)]
        failed == {i \in healthy : r[i].status # SuccessStatus}
        first == CHOOSE i \in failed : \A j \in failed : i <= j
        alloc1 == [i \in Children |->
                     IF i \in healthy THEN r[i].alloc ELSE th.alloc[i]]
        child1 == [i \in Children |->
                     IF i \in failed
                     THEN ChildDegraded(child_fault_reason(r[i].status))
                     ELSE th.child[i]]
    IN  IF failed # healthy
        THEN [thin |-> [th EXCEPT !.alloc = alloc1, !.child = child1,
                                  !.good = TRUE],
              status |-> SuccessStatus]
        ELSE [thin |-> [th EXCEPT !.alloc = alloc1],
              status |-> r[first].status]

\* the errno the initiator hands the writer for a completion status
nvme_status_errno(status) ==
    IF NvmeStatusOf(status) = <<"Generic", SPDK_NVME_SC_SUCCESS>> THEN 0
    ELSE IF NvmeStatusOf(status) = <<"Generic", SPDK_NVME_SC_CAPACITY_EXCEEDED>>
    THEN ENOSPC
    ELSE EIO

\* no device, no event and no completion yet
EventsQuiet ==
    /\ bdevs = <<>>
    /\ ctrlrs = [c \in Ctrlrs |-> NoCtrlr]
    /\ ev = NoEvent
    /\ cpl = NoCpl
    /\ thin = NoThin

(***************************************************************************)
(* Construction and destruction: the registry starts empty and the tasks   *)
(* create, export and destroy subsystems.                                  *)
(***************************************************************************)
InitCreate ==
    /\ heap = [p \in Ptrs |-> NoSubsys]
    /\ tgt = <<>>
    /\ tasks = [t \in Tasks |-> IdleTask]
    /\ ana_env \in AnaEnvValues
    /\ EventsQuiet

NextCreate ==
    \/ \E t \in Tasks : New(t)
    \/ \E t \in Tasks : TryFromWith(t)
    \/ \E t \in Tasks : ShutdownUnsafe(t)
    \/ \E t \in Tasks : Return(t)
    \/ \E s \in Ptrs : SubsystemFreed(s)

SpecCreate == InitCreate /\ [][NextCreate]_vars

\* set_ana_reporting(&self, enable)
SetAnaReporting(t) ==
    /\ Idle(t)
    /\ \E s \in LivePtrs, enable \in BOOLEAN, rc \in CbStatuses :
         LET r == set_ana_reporting(heap, s, enable, ana_env, rc) IN
         /\ heap' = r.heap
         /\ tasks' = [tasks EXCEPT ![t] =
                [IdleTask EXCEPT !.pc = "done", !.op = "set_ana_reporting",
                                 !.ss = s, !.enable = enable,
                                 !.fcalls = r.calls, !.res = r.res]]
    /\ UNCHANGED <<tgt, ana_env, evars>>

\* ANA reporting: subsystems are created and their ANA reporting is set,
\* under any value of the environment flag
NextAna ==
    \/ \E t \in Tasks : New(t)
    \/ \E t \in Tasks : SetAnaReporting(t)
    \/ \E t \in Tasks : Return(t)

SpecAna == InitCreate /\ [][NextAna]_vars

\* namespaces: subsystems are created bare and given their namespace later
InitNs ==
    /\ heap = [p \in Ptrs |-> NoSubsys]
    /\ tgt = <<>>
    /\ tasks = [t \in Tasks |-> IdleTask]
    /\ ana_env = "unset"
    /\ EventsQuiet

NextNs ==
    \/ \E t \in Tasks : New(t)
    \/ \E t \in Tasks : AddNamespace(t)
    \/ \E t \in Tasks : ShutdownUnsafe(t)
    \/ \E t \in Tasks : Return(t)
    \/ \E s \in Ptrs : SubsystemFreed(s)

SpecNs == InitNs /\ [][NextNs]_vars

\* the result of a lookup
Some(s) == [kind |-> "Some", ss |-> s]
None == [kind |-> "None"]
Panicked == [kind |-> "Panic"]

\* NvmfSubsystem::first()
first(tg) == IF tg = <<>> THEN None ELSE Some(tg[1])

\* NvmfSubsystemIterator: .find(|s| s.get_nqn() == nqn) from the i-th
\* subsystem of the target on
RECURSIVE IterFind(_, _, _, _)
IterFind(h, tg, nqn, i) ==
    IF i > Len(tg)
    THEN None
    ELSE IF h[tg[i]].nqn = nqn
         THEN Some(tg[i])
         ELSE IterFind(h, tg, nqn, i + 1)

\* NvmfSubsystem::nqn_lookup(uuid): first().unwrap() panics on None
nqn_lookup(h, tg, uuid) ==
    IF first(tg) = None
    THEN Panicked
    ELSE IterFind(h, tg, make_nqn(uuid), 1)

\* nqn_lookup(uuid); a panic unwinds the task, which never returns
NqnLookup(t) ==
    /\ Idle(t)
    /\ \E uuid \in Uuids :
         LET r == nqn_lookup(heap, tgt, uuid) IN
         tasks' = [tasks EXCEPT ![t] =
             [IdleTask EXCEPT !.pc = IF r = Panicked THEN "panicked" ELSE "done",
                              !.op = "nqn_lookup", !.uuid = uuid,
                              !.ss = IF r.kind = "Some" THEN r.ss ELSE NULL,
                              !.res = r]]
    /\ UNCHANGED <<heap, tgt, ana_env, evars>>

\* the registry: subsystems are created, looked up and destroyed
NextRegistry ==
    \/ \E t \in Tasks : New(t)
    \/ \E t \in Tasks : NqnLookup(t)
    \/ \E t \in Tasks : ShutdownUnsafe(t)
    \/ \E t \in Tasks : Return(t)
    \/ \E s \in Ptrs : SubsystemFreed(s)

SpecRegistry == InitNs /\ [][NextRegistry]_vars

(***************************************************************************)
(* Lifecycle: one subsystem has been constructed by try_from_with and the  *)
(* tasks drive it through start, stop, pause, resume and shutdown.         *)
(***************************************************************************)
Exported ==
    try_from_with([p \in Ptrs |-> NoSubsys], <<>>,
                  CHOOSE u \in Uuids : TRUE, "unset", TryFromAllOk)

Init ==
    /\ heap = Exported.heap
    /\ tgt = Exported.tgt
    /\ tasks = [t \in Tasks |-> IdleTask]
    /\ ana_env = "unset"
    /\ EventsQuiet

Next ==
    \/ \E t \in Tasks : Start(t)
    \/ \E t \in Tasks : StartListened(t)
    \/ \E t \in Tasks : Stop(t)
    \/ \E t \in Tasks : Pause(t)
    \/ \E t \in Tasks : Resume(t)
    \/ \E t \in Tasks : Retry(t)
    \/ \E t \in Tasks : ChangeStateDone(t)
    \/ \E t \in Tasks : ShutdownUnsafe(t)
    \/ \E t \in Tasks : Return(t)
    \/ \E t \in Tasks : ListenerDone(t)
    \/ \E s \in Ptrs : StateChangeDone(s)
    \/ \E s \in Ptrs : SubsystemFreed(s)

Spec == Init /\ [][Next]_vars

\* the reactor runs every task that can run (a task whose sleep has ended,
\* a task whose callback has fired), and the foreign target fires the
\* callback of every request it has accepted
Fairness ==
    /\ \A t \in Tasks : WF_vars(StartListened(t))
    /\ \A t \in Tasks : WF_vars(Retry(t))
    /\ \A t \in Tasks : WF_vars(ChangeStateDone(t))
    /\ \A t \in Tasks : WF_vars(ListenerDone(t))
    /\ \A s \in Ptrs : WF_vars(StateChangeDone(s))

SpecLive == Init /\ [][Next]_vars /\ Fairness

(***************************************************************************)
(* Host ACL: the calls of the tasks and the foreign callback.              *)
(***************************************************************************)
HostOps == {"set_allowed_hosts", "allow_host", "disallow_host", "disconnect_host"}
AllHostNqns == HostNqns \cup {BadHostNqn}
\* the lists a caller passes to set_allowed_hosts
RECURSIVE ListsUpTo(_, _)
ListsUpTo(S, n) ==
    IF n = 0 THEN {<<>>}
    ELSE LET r == ListsUpTo(S, n - 1) IN
         r \cup {<<x>> \o l : x \in S, l \in r}
HostLists == ListsUpTo(HostNqns, MaxHostList)

\* the tasks after task t has taken a step on subsystem s that left it with
\* the record `rec`: a task inside a host call on s learns that another task
\* has changed the list
TasksAfter(t, rec, s, h1) ==
    [u \in Tasks |->
        IF u = t THEN rec
        ELSE IF /\ h1[s].hosts # heap[s].hosts
                /\ tasks[u].ss = s
                /\ tasks[u].op \in HostOps
             THEN [tasks[u] EXCEPT !.alone = FALSE]
             ELSE tasks[u]]

\* disconnect_host from the call of the foreign function to `r.await`: the
\* return code is not looked at; a refused request has no callback
DisconnectIssue(tk, host, rc) ==
    [tk EXCEPT !.pc = "disc_wait", !.fired = FALSE, !.pending = (rc = 0),
               !.disconnects = Append(@, host), !.fcalls = @ + 1]

\* mutant: the loop holds the entries themselves and reads each NQN from
\* its entry when its turn comes
DisconnectLoop_ReadsEntries(h, tk, dis_ok, rc) ==
    IF tk.todo = <<>>
    THEN [heap |-> h, task |-> [tk EXCEPT !.pc = "done", !.res = Ok(NULL)]]
    ELSE LET host == Head(tk.todo)
             d == disallow_host(h, tk.ss, host, dis_ok)
             tk1 == [tk EXCEPT !.todo = Tail(@), !.fcalls = @ + d.calls,
                               !.log = Append(@, [kind |-> "read",
                                                  host |-> host])]
             tk2 == [tk1 EXCEPT !.disallowed = Append(@, host),
                                !.log = Append(@, [kind |-> "remove",
                                                   host |-> host])]
         IN  IF IsErr(d.res)
             THEN [heap |-> d.heap,
                   task |-> [tk1 EXCEPT !.pc = "done", !.res = d.res]]
             ELSE IF IsErr(cstr(host))
             THEN [heap |-> d.heap,
                   task |-> [tk2 EXCEPT !.pc = "done", !.res = cstr(host)]]
             ELSE [heap |-> d.heap,
                   task |-> DisconnectIssue(tk2, host, rc)]

\* set_allowed_hosts: `for host in hosts_to_disconnect`, from the top of the
\* loop to the next suspension point or to the return
DisconnectLoop(h, tk, dis_ok, rc) ==
    IF tk.todo = <<>>
    THEN [heap |-> h, task |-> [tk EXCEPT !.pc = "done", !.res = Ok(NULL)]]
    ELSE LET host == Head(tk.todo)
             d == disallow_host(h, tk.ss, host, dis_ok)
             tk1 == [tk EXCEPT !.todo = Tail(@), !.fcalls = @ + d.calls]
             tk2 == [tk1 EXCEPT !.disallowed = Append(@, host),
                                !.log = Append(@, [kind |-> "remove",
                                                   host |-> host])]
         IN  IF IsErr(d.res)
             THEN [heap |-> d.heap,
                   task |-> [tk1 EXCEPT !.pc = "done", !.res = d.res]]
             ELSE IF IsErr(cstr(host))
             THEN [heap |-> d.heap,
                   task |-> [tk2 EXCEPT !.pc = "done", !.res = cstr(host)]]
             ELSE [heap |-> d.heap,
                   task |-> DisconnectIssue(tk2, host, rc)]

\* what the foreign calls of one run of set_allowed_hosts between two
\* suspension points do: the add_host call number `fail` is refused (0:
\* none), remove_host works or not, disconnect_host returns rc
HostsAllOk == [fail |-> 0, dis_ok |-> TRUE, rc |-> 0]
HostOutcomes(n) ==
    {HostsAllOk,
     [HostsAllOk EXCEPT !.dis_ok = FALSE],
     [HostsAllOk EXCEPT !.rc = RefusedRc]}
    \cup {[HostsAllOk EXCEPT !.fail = k] : k \in 1 .. n}

\* set_allowed_hosts(hosts), up to the first suspension point or the return
SetAllowedHosts(t) ==
    /\ Idle(t)
    /\ \E s \in LivePtrs, hosts \in HostLists :
       \E fo \in HostOutcomes(Len(hosts)) :
        LET tk == [IdleTask EXCEPT !.op = "set_allowed_hosts", !.ss = s,
                                   !.arg = hosts,
                                   !.after = \E u \in Tasks \ {t} :
                                               /\ tasks[u].op = "set_allowed_hosts"
                                               /\ tasks[u].ss = s
                                               /\ tasks[u].pc = "disc_wait"]
            a == allow_hosts(heap, s, hosts, fo.fail)
            tk1 == [tk EXCEPT !.fcalls = a.calls,
                              !.log = hosts_read(a.heap, s),
                              !.todo = hosts_to_disconnect(a.heap, s, hosts)]
            l == DisconnectLoop(a.heap, tk1, fo.dis_ok, fo.rc)
            out == IF hosts = <<>>
                   THEN [heap |-> heap,
                         task |-> [tk EXCEPT !.pc = "done", !.res = Ok(NULL)]]
                   ELSE IF IsErr(a.res)
                   THEN [heap |-> a.heap,
                         task |-> [tk EXCEPT !.pc = "done", !.res = a.res,
                                             !.fcalls = a.calls]]
                   ELSE l
        IN  /\ heap' = out.heap
            /\ tasks' = TasksAfter(t, out.task, s, out.heap)
    /\ UNCHANGED <<tgt, ana_env, evars>>

\* set_allowed_hosts: the disconnect was acknowledged, the loop goes on
SetAllowedHostsResumed(t) ==
    /\ tasks[t].pc = "disc_wait"
    /\ tasks[t].op = "set_allowed_hosts"
    /\ tasks[t].fired
    /\ \E fo \in HostOutcomes(0) :
        LET tk == tasks[t]
            r == DisconnectResult(tk.cbst, Last(tk.disconnects))
            out == IF IsErr(r)
                   THEN [heap |-> heap,
                         task |-> [tk EXCEPT !.pc = "done", !.res = r]]
                   ELSE DisconnectLoop(heap, tk, fo.dis_ok, fo.rc)
        IN  /\ heap' = out.heap
            /\ tasks' = TasksAfter(t, out.task, tk.ss, out.heap)
    /\ UNCHANGED <<tgt, ana_env, evars>>

\* allow_host(host)
AllowHost(t) ==
    /\ Idle(t)
    /\ \E s \in LivePtrs, host \in AllHostNqns, ok \in BOOLEAN :
        LET a == allow_host(heap, s, host, ok)
            tk == [IdleTask EXCEPT !.op = "allow_host", !.ss = s, !.pc = "done",
                                   !.arg = <<host>>,
                                   !.fcalls = a.calls, !.res = a.res]
        IN  /\ heap' = a.heap
            /\ tasks' = TasksAfter(t, tk, s, a.heap)
    /\ UNCHANGED <<tgt, ana_env, evars>>

\* disallow_host(host)
DisallowHost(t) ==
    /\ Idle(t)
    /\ \E s \in LivePtrs, host \in AllHostNqns, ok \in BOOLEAN :
        LET d == disallow_host(heap, s, host, ok)
            tk == [IdleTask EXCEPT !.op = "disallow_host", !.ss = s, !.pc = "done",
                                   !.arg = <<host>>,
                                   !.fcalls = d.calls, !.res = d.res]
        IN  /\ heap' = d.heap
            /\ tasks' = TasksAfter(t, tk, s, d.heap)
    /\ UNCHANGED <<tgt, ana_env, evars>>

\* disconnect_host(host), up to `r.await`
DisconnectHost(t) ==
    /\ Idle(t)
    /\ \E s \in LivePtrs, host \in AllHostNqns, rc \in {0, RefusedRc} :
        LET tk == [IdleTask EXCEPT !.op = "disconnect_host", !.ss = s,
                                   !.arg = <<host>>]
        IN  tasks' = [tasks EXCEPT ![t] =
                IF IsErr(cstr(host))
                THEN [tk EXCEPT !.pc = "done", !.res = cstr(host)]
                ELSE DisconnectIssue(tk, host, rc)]
    /\ UNCHANGED <<heap, tgt, ana_env, evars>>

\* disconnect_host(host), from the callback to the return
DisconnectHostDone(t) ==
    /\ tasks[t].pc = "disc_wait"
    /\ tasks[t].op = "disconnect_host"
    /\ tasks[t].fired
    /\ tasks' = [tasks EXCEPT ![t].pc = "done",
                              ![t].res = DisconnectResult(tasks[t].cbst,
                                                          Last(tasks[t].disconnects))]
    /\ UNCHANGED <<heap, tgt, ana_env, evars>>

\* the callback of spdk_nvmf_subsystem_disconnect_host fires (done_cb)
DisconnectDone(t) ==
    /\ tasks[t].pc = "disc_wait"
    /\ tasks[t].pending
    /\ \E status \in CbStatuses :
        tasks' = [tasks EXCEPT ![t].fired = TRUE, ![t].pending = FALSE,
                               ![t].cbst = status]
    /\ UNCHANGED <<heap, tgt, ana_env, evars>>

\* an exported subsystem with the allowed-host list `hosts`
ExportedWithHosts(hosts) ==
    [p \in Ptrs |->
        IF p = Exported.ss
        THEN [Exported.heap[p] EXCEPT !.hosts = hosts]
        ELSE Exported.heap[p]]

\* the allowed-host lists the target can hold
AllowedLists == {HostList(S) : S \in SUBSET HostNqns}

InitHosts ==
    /\ \E hosts \in AllowedLists : heap = ExportedWithHosts(hosts)
    /\ tgt = Exported.tgt
    /\ tasks = [t \in Tasks |-> IdleTask]
    /\ ana_env = "unset"
    /\ EventsQuiet

\* the reconciliation of the allowed-host list
NextHosts ==
    \/ \E t \in Tasks : SetAllowedHosts(t)
    \/ \E t \in Tasks : SetAllowedHostsResumed(t)
    \/ \E t \in Tasks : DisconnectDone(t)
    \/ \E t \in Tasks : Return(t)

SpecHosts == InitHosts /\ [][NextHosts]_vars

\* the single-host operations
NextHostOps ==
    \/ \E t \in Tasks : AllowHost(t)
    \/ \E t \in Tasks : DisallowHost(t)
    \/ \E t \in Tasks : DisconnectHost(t)
    \/ \E t \in Tasks : DisconnectHostDone(t)
    \/ \E t \in Tasks : DisconnectDone(t)
    \/ \E t \in Tasks : Return(t)

SpecHostOps == InitHosts /\ [][NextHostOps]_vars

(***************************************************************************)
(* stop_all: the iteration over the subsystems of the target.              *)
(***************************************************************************)
\* spdk_nvmf_subsystem_get_first(tgt), spdk_nvmf_subsystem_get_next(s)
spdk_nvmf_subsystem_get_first(tg) == IF tg = <<>> THEN NULL ELSE tg[1]
spdk_nvmf_subsystem_get_next(tg, s) ==
    LET i == CHOOSE k \in 1 .. Len(tg) : tg[k] = s IN
    IF i = Len(tg) THEN NULL ELSE tg[i + 1]

RECURSIVE StopAllFrom(_, _, _, _)
RECURSIVE StopAllAttempt(_, _, _, _)
RECURSIVE StopAllLogged(_, _, _, _)

\* mutant: the error of a stop ends the loop
StopAllLogged_Returns(h, tg, t, tk) ==
    {[heap |-> h, task |-> [tk EXCEPT !.pc = "done", !.errs = @ + 1,
                                      !.res = Ok(NULL)]]}

\* stop_all, `if let Err(e) = s.stop().await { error!(..) }`: the error is
\* logged and the loop goes on
StopAllLogged(h, tg, t, tk) == StopAllFrom(h, tg, t, [tk EXCEPT !.errs = @ + 1])

\* change_state(stop) on the subsystem the loop is at: one pass, from the
\* call of the foreign stop to the next suspension point
StopAllAttempt(h, tg, t, tk) ==
    UNION {
        LET rc == -ret
            tk1 == [tk EXCEPT !.rcs = Append(@, rc)]
        IN  IF ~ShouldBreak(rc, tk.n)
            THEN {[heap |-> h,
                   task |-> [tk1 EXCEPT !.n = @ + 1, !.sleeps = @ + 1,
                                        !.pc = "all_sleep"]]}
            ELSE IF rc = 0
            THEN {[heap |-> [p \in Ptrs |->
                               IF p = tk.ss
                               THEN [h[p] EXCEPT !.changing =
                                        [fn |-> stop_fn, task |-> t]]
                               ELSE h[p]],
                   task |-> [tk1 EXCEPT !.pc = "all_state_wait",
                                        !.waited = TRUE, !.fired = FALSE]]}
            ELSE StopAllLogged(h, tg, t, tk1)
        : ret \in ForeignTransitionReturns(h[tk.ss], stop_fn)}

\* stop_all, the `for s in subsystem.into_iter()` loop from the next() of
\* the iterator on: next() reads the successor before it yields
StopAllFrom(h, tg, t, tk) ==
    IF tk.iter = NULL
    THEN {[heap |-> h, task |-> [tk EXCEPT !.pc = "done", !.res = Ok(NULL)]]}
    ELSE StopAllAttempt(h, tg, t,
            [tk EXCEPT !.ss = tk.iter,
                       !.iter = spdk_nvmf_subsystem_get_next(tg, tk.iter),
                       !.n = 0, !.rcs = <<>>,
                       !.stopped = Append(@, tk.iter)])

\* stop_all(tgt), up to the first suspension point
StopAll(t) ==
    /\ Idle(t)
    /\ \E r \in StopAllFrom(heap, tgt, t,
                   [IdleTask EXCEPT !.op = "stop_all",
                                    !.iter = spdk_nvmf_subsystem_get_first(tgt)]) :
         /\ heap' = r.heap
         /\ tasks' = [tasks EXCEPT ![t] = r.task]
    /\ UNCHANGED <<tgt, ana_env, evars>>

\* stop_all: the sleep of change_state is over, the next attempt
StopAllRetry(t) ==
    /\ tasks[t].pc = "all_sleep"
    /\ \E r \in StopAllAttempt(heap, tgt, t, tasks[t]) :
         /\ heap' = r.heap
         /\ tasks' = [tasks EXCEPT ![t] = r.task]
    /\ UNCHANGED <<tgt, ana_env, evars>>

\* stop_all: the callback of a stop has fired; the loop runs on
StopAllStopped(t) ==
    /\ tasks[t].pc = "all_state_wait"
    /\ tasks[t].fired
    /\ LET tk == [tasks[t] EXCEPT !.fired = FALSE]
           res == ChangeStateAwaited(tk.cbst, heap[tk.ss].nqn, "stop")
       IN  \E r \in (IF IsErr(res) THEN StopAllLogged(heap, tgt, t, tk)
                      ELSE StopAllFrom(heap, tgt, t, tk)) :
             /\ heap' = r.heap
             /\ tasks' = [tasks EXCEPT ![t] = r.task]
    /\ UNCHANGED <<tgt, ana_env, evars>>

\* a second subsystem exported next to the first
ExportedTwo ==
    try_from_with(Exported.heap, Exported.tgt,
                  CHOOSE u \in Uuids : u # CHOOSE v \in Uuids : TRUE,
                  "unset", TryFromAllOk)
\* the registries made of an export, its subsystems in any state
RegistriesOf(e) ==
    {[heap |-> [p \in Ptrs |->
                  IF e.heap[p].alloc = "live"
                  THEN [e.heap[p] EXCEPT !.state = st[p]]
                  ELSE e.heap[p]],
      tgt |-> e.tgt] : st \in [Ptrs -> {"Inactive", "Active", "Paused"}]}

\* the registries stop_all finds: no, one or two subsystems in any state
Registries ==
    {[heap |-> [p \in Ptrs |-> NoSubsys], tgt |-> <<>>]}
    \cup RegistriesOf(Exported) \cup RegistriesOf(ExportedTwo)

InitStopAll ==
    /\ \E r \in Registries : heap = r.heap /\ tgt = r.tgt
    /\ tasks = [t \in Tasks |-> IdleTask]
    /\ ana_env = "unset"
    /\ EventsQuiet

NextStopAll ==
    \/ \E t \in Tasks : StopAll(t)
    \/ \E t \in Tasks : StopAllRetry(t)
    \/ \E t \in Tasks : StopAllStopped(t)
    \/ \E t \in Tasks : Pause(t)
    \/ \E t \in Tasks : Resume(t)
    \/ \E t \in Tasks : Retry(t)
    \/ \E t \in Tasks : ChangeStateDone(t)
    \/ \E s \in Ptrs : StateChangeDone(s)
    \/ \E t \in Tasks : Return(t)

SpecStopAll == InitStopAll /\ [][NextStopAll]_vars

(***************************************************************************)
(* The event path: completions and subsystem events.                       *)
(***************************************************************************)
\* bdev::nexus::NEXUS_MODULE_NAME
NEXUS_MODULE_NAME == "nexus"
\* most devices in the block-device registry
MaxBdevs == 2
\* a device: its name, the module that drives it, and whether the lvol
\* store knows it (Lvol::try_from succeeds)
Devices ==
    {[name |-> n, driver |-> NEXUS_MODULE_NAME, is_lvol |-> FALSE] : n \in Uuids}
    \cup {[name |-> n, driver |-> "malloc", is_lvol |-> FALSE] : n \in Uuids}
    \cup {[name |-> n, driver |-> "lvol", is_lvol |-> l] :
              n \in Uuids, l \in BOOLEAN}
\* the registries: device names are unique in the block-device layer
BdevLists ==
    {l \in ListsUpTo(Devices, MaxBdevs) :
        \A i, j \in 1 .. Len(l) : l[i].name = l[j].name => i = j}

\* NQNs handed to the classifier: the NQNs of the exports, another prefix,
\* no separator, two separators, an empty name and the empty string
Nqns ==
    {make_nqn(u) : u \in Uuids}
    \cup {<<"x", ":", "a">>, <<"a">>, make_nqn(<<"a", ":", "b">>),
          make_nqn(NoStr), NoStr}

\* str.split(sep).collect()
RECURSIVE split(_, _)
split(str, sep) ==
    IF sep \notin Range(str)
    THEN <<str>>
    ELSE LET i == CHOOSE k \in 1 .. Len(str) :
                     /\ str[k] = sep
                     /\ \A j \in 1 .. (k - 1) : str[j] # sep
         IN  <<SubSeq(str, 1, i - 1)>> \o split(SubSeq(str, i + 1, Len(str)), sep)

NqnTargetNone == [kind |-> "None", bdev |-> 0]

\* the loop of NqnTarget::lookup over the devices from the i-th on
RECURSIVE LookupFrom(_, _, _)
LookupFrom(devs, name, i) ==
    IF i > Len(devs)
    THEN NqnTargetNone
    ELSE IF devs[i].driver = NEXUS_MODULE_NAME /\ devs[i].name = name
         THEN [kind |-> "Nexus", bdev |-> i]
         ELSE IF devs[i].driver = "lvol" /\ devs[i].name = name
              THEN IF devs[i].is_lvol
                   THEN [kind |-> "Replica", bdev |-> i]
                   ELSE NqnTargetNone
              ELSE LookupFrom(devs, name, i + 1)

lookup_AnyPrefix(nqn, devs) ==
    IF devs = <<>>
    THEN NqnTargetNone
    ELSE LET parts == split(nqn, ":") IN
         IF Len(parts) # 2
         THEN NqnTargetNone
         ELSE LookupFrom(devs, parts[2], 1)

\* NqnTarget::lookup(nqn) over the registry devs
lookup(nqn, devs) ==
    IF devs = <<>>
    THEN NqnTargetNone
    ELSE LET parts == split(nqn, ":") IN
         IF Len(parts) # 2 \/ parts[1] # NVME_NQN_PREFIX
         THEN NqnTargetNone
         ELSE LookupFrom(devs, parts[2], 1)

\* NvmfSubsystemEvent
EventKinds == {"HostConnect", "HostDisconnect", "HostKeepAliveTimeout", "Unknown"}

\* what a handler leaves: the controller and the calls made on the nexus
Handled(ctrlr, calls) == [ctrlr |-> ctrlr, calls |-> calls]

host_connect_nexus(c, ctrlr) ==
    Handled([ctrlr EXCEPT !.cpl_error_cb = "nexus_cpl_error_cb"],
            <<<<"add_initiator", hostnqn(c)>>>>)

host_disconnect_nexus(c, ctrlr) ==
    Handled([ctrlr EXCEPT !.cpl_error_cb = "none"],
            <<<<"rm_initiator", hostnqn(c)>>>>)

host_kato_nexus_Silent(c, ctrlr) == Handled(ctrlr, <<>>)

host_kato_nexus(c, ctrlr) ==
    Handled(ctrlr, <<<<"initiator_keep_alive_timeout", hostnqn(c)>>>>)

host_connect_replica(c, ctrlr) ==
    Handled([ctrlr EXCEPT !.cpl_error_cb = "replica_cpl_error_cb"], <<>>)

host_disconnect_replica_Keeps(c, ctrlr) == Handled(ctrlr, <<>>)

host_disconnect_replica(c, ctrlr) ==
    Handled([ctrlr EXCEPT !.cpl_error_cb = "none"], <<>>)

host_kato_replica(c, ctrlr) == Handled(ctrlr, <<>>)

\* nvmf_subsystem_event_handler(subsys, event, ctx, _) for an event of
\* controller c on the subsystem with this NQN
nvmf_subsystem_event_handler(nqn, event, c, ctrlr, devs) ==
    LET nqn_tgt == lookup(nqn, devs).kind
        r == CASE event = "HostConnect" /\ nqn_tgt = "Nexus" ->
                      host_connect_nexus(c, ctrlr)
               [] event = "HostConnect" /\ nqn_tgt = "Replica" ->
                      host_connect_replica(c, ctrlr)
               [] event = "HostDisconnect" /\ nqn_tgt = "Nexus" ->
                      host_disconnect_nexus(c, ctrlr)
               [] event = "HostDisconnect" /\ nqn_tgt = "Replica" ->
                      host_disconnect_replica(c, ctrlr)
               [] event = "HostKeepAliveTimeout" /\ nqn_tgt = "Nexus" ->
                      host_kato_nexus(c, ctrlr)
               [] event = "HostKeepAliveTimeout" /\ nqn_tgt = "Replica" ->
                      host_kato_replica(c, ctrlr)
               [] OTHER -> Handled(ctrlr, <<>>)
    IN  [ctrlr |-> r.ctrlr,
         ev |-> [kind |-> event, ctrlr |-> c, nqn |-> nqn, target |-> nqn_tgt,
                 calls |-> r.calls, returned |-> TRUE]]

\* the target delivers an event of controller c to the callback new
\* registered on subsystem s
SubsystemEvent(s, c) ==
    /\ heap[s].alloc = "live"
    /\ heap[s].event_cb
    /\ \E event \in EventKinds :
         LET r == nvmf_subsystem_event_handler(heap[s].nqn, event, c,
                                               ctrlrs[c], bdevs)
         IN  /\ ctrlrs' = [ctrlrs EXCEPT ![c] = r.ctrlr]
             /\ ev' = r.ev
    /\ UNCHANGED <<heap, tgt, tasks, ana_env, bdevs, cpl, thin>>

\* devices are created and destroyed
BdevsChange ==
    /\ bdevs' \in BdevLists \ {bdevs}
    /\ UNCHANGED <<heap, tgt, tasks, ana_env, ctrlrs, ev, cpl, thin>>

\* NqnTarget::lookup(nqn) over the current registry
Lookup ==
    /\ ev.kind = "none"
    /\ ev' = [ev EXCEPT !.kind = "lookup",
                        !.target = lookup(ev.nqn, bdevs).kind]
    /\ UNCHANGED <<heap, tgt, tasks, ana_env, bdevs, ctrlrs, cpl, thin>>

\* events of the hosts of the exported subsystem
InitEvents ==
    /\ heap = Exported.heap
    /\ tgt = Exported.tgt
    /\ tasks = [t \in Tasks |-> IdleTask]
    /\ ana_env = "unset"
    /\ EventsQuiet

NextEvents ==
    \/ \E s \in Ptrs, c \in Ctrlrs : SubsystemEvent(s, c)
    \/ BdevsChange

SpecEvents == InitEvents /\ [][NextEvents]_vars

\* the classifier over every registry and every NQN
InitLookup ==
    /\ heap = Exported.heap
    /\ tgt = Exported.tgt
    /\ tasks = [t \in Tasks |-> IdleTask]
    /\ ana_env = "unset"
    /\ bdevs \in BdevLists
    /\ ctrlrs = [c \in Ctrlrs |-> NoCtrlr]
    /\ ev \in {[NoEvent EXCEPT !.nqn = n] : n \in Nqns}
    /\ cpl = NoCpl
    /\ thin = NoThin

NextLookup == Lookup

SpecLookup == InitLookup /\ [][NextLookup]_vars

\* longest name handed to make_nqn
MaxUuidLen == 3
\* the names the callers pass (new(bdev.name()), nqn_lookup(uuid)): any
\* string, the separator included
UuidChars == {"a", "-", ":"}
UuidStrings == ListsUpTo(UuidChars, MaxUuidLen)

NoName == [kind |-> "NoName"]
\* the parse of NqnTarget::lookup: the name after the prefix, if the NQN
\* has the form the parse accepts
parse_nqn(nqn) ==
    LET parts == split(nqn, ":") IN
    IF Len(parts) # 2 \/ parts[1] # NVME_NQN_PREFIX
    THEN NoName
    ELSE [kind |-> "Name", name |-> parts[2]]

\* a task makes the NQN of a name and the NQN is parsed back
MakeNqn(t) ==
    /\ Idle(t)
    /\ \E uuid \in UuidStrings :
         tasks' = [tasks EXCEPT ![t] =
             [IdleTask EXCEPT !.pc = "done", !.op = "make_nqn",
                              !.uuid = uuid, !.arg = make_nqn(uuid),
                              !.res = parse_nqn(make_nqn(uuid))]]
    /\ UNCHANGED <<heap, tgt, ana_env, evars>>

NextNqn ==
    \/ \E t \in Tasks : MakeNqn(t)
    \/ \E t \in Tasks : Return(t)

SpecNqn == InitEvents /\ [][NextNqn]_vars

\* the target completes a request of controller c with an error status and
\* runs the callback installed on the controller, if any
Completion(c) ==
    /\ \E status \in Statuses :
         LET cb == ctrlrs[c].cpl_error_cb
             out == CASE cb = "nexus_cpl_error_cb" -> nexus_cpl_error_cb(status)
                      [] cb = "replica_cpl_error_cb" ->
                            replica_cpl_error_cb(status)
                      [] OTHER -> status
         IN  cpl' = [by |-> cb, ctrlr |-> c, in |-> status, out |-> out]
    /\ UNCHANGED <<heap, tgt, tasks, ana_env, bdevs, ctrlrs, ev, thin>>

\* completions of requests on controllers that hold any of the callbacks
InitCpl ==
    /\ heap = Exported.heap
    /\ tgt = Exported.tgt
    /\ tasks = [t \in Tasks |-> IdleTask]
    /\ ana_env = "unset"
    /\ bdevs = <<>>
    /\ ctrlrs \in [Ctrlrs -> [cpl_error_cb : CplErrorCbs]]
    /\ ev = NoEvent
    /\ cpl = NoCpl
    /\ thin = NoThin

NextCpl == \E c \in Ctrlrs : Completion(c)

SpecCpl == InitCpl /\ [][NextCpl]_vars

(***************************************************************************)
(* ANA state of the replica-port listener.                                 *)
(***************************************************************************)
\* the ANA states a caller passes: optimized, non_optimized, inaccessible
AnaStates == 1 .. 3

\* spdk_nvmf_subsystem_set_ana_state: the statuses its callback may carry;
\* the target takes the request only for a listener of a subsystem that is
\* Inactive or Paused, and may fail it for reasons of its own
SetAnaStateStatuses(rec, trid) ==
    {-e : e \in ForeignErrnos}
    \cup (IF /\ rec.state \in {"Inactive", "Paused"}
              /\ rec.changing = NoReq
              /\ ~rec.destroying
              /\ trid \in rec.listeners
           THEN {0} ELSE {})

\* spdk_nvmf_subsystem_set_ana_state with the status `status`
spdk_nvmf_subsystem_set_ana_state(h, s, trid, ana_state, status) ==
    IF status = 0 THEN [h EXCEPT ![s].ana_state = ana_state] ELSE h

\* mutant: the status of the callback is not looked at
SetAnaStateResult_IgnoreStatus(status, nqn) == Ok(NULL)

\* set_ana_state: `r.await.expect(..).to_result(|e| Error::Subsystem {..})`
SetAnaStateResult(status, nqn) ==
    IF status = 0
    THEN Ok(NULL)
    ELSE ErrSubsystem(from_i32(-to_result_errno(status)), nqn,
                      "failed to set_ana_state of the subsystem")

\* set_ana_state(ana_state), up to `r.await`
SetAnaState(t) ==
    /\ Idle(t)
    /\ \E s \in LivePtrs, ana_state \in AnaStates :
       \E status \in SetAnaStateStatuses(heap[s], trid_replica) :
        /\ heap' = spdk_nvmf_subsystem_set_ana_state(heap, s, trid_replica,
                                                     ana_state, status)
        /\ tasks' = [tasks EXCEPT ![t] =
               [IdleTask EXCEPT !.op = "set_ana_state", !.ss = s,
                                !.pc = "ana_wait", !.arg = <<ana_state>>,
                                !.cbst = status, !.fcalls = 1,
                                !.called_at = SpecState(heap[s])]]
    /\ UNCHANGED <<tgt, ana_env, evars>>

\* set_ana_state: set_ana_state_cb has fired, the task runs on to the return
SetAnaStateDone(t) ==
    /\ tasks[t].pc = "ana_wait"
    /\ tasks' = [tasks EXCEPT ![t].pc = "done", ![t].fired = TRUE,
                              ![t].res = SetAnaStateResult(tasks[t].cbst,
                                                           heap[tasks[t].ss].nqn)]
    /\ UNCHANGED <<heap, tgt, ana_env, evars>>

NextAnaState ==
    \/ \E t \in Tasks : Start(t)
    \/ \E t \in Tasks : StartListened(t)
    \/ \E t \in Tasks : Stop(t)
    \/ \E t \in Tasks : Pause(t)
    \/ \E t \in Tasks : Resume(t)
    \/ \E t \in Tasks : Retry(t)
    \/ \E t \in Tasks : ChangeStateDone(t)
    \/ \E t \in Tasks : SetAnaState(t)
    \/ \E t \in Tasks : SetAnaStateDone(t)
    \/ \E t \in Tasks : Return(t)
    \/ \E t \in Tasks : ListenerDone(t)
    \/ \E s \in Ptrs : StateChangeDone(s)

SpecAnaState == Init /\ [][NextAnaState]_vars

(***************************************************************************)
(* The data path of tests/nexus_thin.rs: a host writes to a nexus that is   *)
(* exported over the subsystem, the nexus writes to its thin replicas.      *)
(***************************************************************************)
\* the contiguous cluster ranges a write covers
Ranges(size) == {lo .. hi : lo \in 1 .. size, hi \in 1 .. size} \ {{}}

\* test_write_to_nvme: the host writes through controller c; the completion
\* passes the interceptor the controller holds
NexusWrite(c) ==
    /\ thin.n > 0
    /\ ctrlrs[c].cpl_error_cb = "nexus_cpl_error_cb"
    /\ \E range \in Ranges(thin.size), crd \in Crds :
         LET w == nexus_write(thin, range, crd)
             out == IF w.status = SuccessStatus THEN w.status
                    ELSE nexus_cpl_error_cb(w.status)
         IN  /\ thin' = [w.thin EXCEPT !.wr = [kind |-> "write", child |-> 0,
                                               range |-> range,
                                               errno |-> nvme_status_errno(out)]]
             /\ cpl' = [by |-> ctrlrs[c].cpl_error_cb, ctrlr |-> c,
                        in |-> w.status, out |-> out]
    /\ UNCHANGED <<heap, tgt, tasks, ana_env, bdevs, ctrlrs, ev>>

\* fill_0.destroy: the thick replica of pool i is destroyed
DestroyFiller(i) ==
    /\ i <= thin.n
    /\ thin.filler[i] > 0
    /\ thin' = [thin EXCEPT !.filler[i] = 0, !.freed = @ \cup {i},
                            !.wr = [NoWrite EXCEPT !.kind = "destroy",
                                                   !.child = i]]
    /\ UNCHANGED <<heap, tgt, tasks, ana_env, bdevs, ctrlrs, ev, cpl>>

\* online_child: a faulted child is taken back and its rebuild begins
OnlineChild(i) ==
    /\ i <= thin.n
    /\ thin.child[i] = ChildDegraded("NoSpace")
    /\ thin' = [thin EXCEPT !.child[i] = ChildDegraded("OutOfSync"),
                            !.wr = [NoWrite EXCEPT !.kind = "online",
                                                   !.child = i]]
    /\ UNCHANGED <<heap, tgt, tasks, ana_env, bdevs, ctrlrs, ev, cpl>>

\* the rebuild of child i ends: the child is healthy when its pool had the
\* room for the clusters of a healthy child, faulted again when not
RebuildDone(i) ==
    /\ i <= thin.n
    /\ thin.child[i] = ChildDegraded("OutOfSync")
    /\ \E j \in 1 .. thin.n :
         /\ thin.child[j] = ChildOnline
         /\ LET need == thin.alloc[j] \ thin.alloc[i]
                fits == Cardinality(need) <= pool_free(thin, i)
            IN  thin' = [thin EXCEPT
                    !.alloc[i] = IF fits THEN @ \cup need
                                 ELSE @ \cup FirstOf(need, pool_free(thin, i)),
                    !.child[i] = IF fits THEN ChildOnline
                                 ELSE ChildDegraded("NoSpace"),
                    !.wr = [NoWrite EXCEPT !.kind = "rebuild", !.child = i]]
    /\ UNCHANGED <<heap, tgt, tasks, ana_env, bdevs, ctrlrs, ev, cpl>>

\* a nexus over one or two thin replicas of equal size, each in a pool of its
\* own that a thick replica may share; the nexus is exported and a host is
\* connected
Nexuses ==
    {x \in {[NoThin EXCEPT
                !.n = n, !.size = size,
                !.cap = [i \in Children |-> IF i <= n THEN cap[i] ELSE 0],
                !.filler = [i \in Children |-> IF i <= n THEN filler[i] ELSE 0],
                !.child = [i \in Children |->
                             IF i <= n THEN ChildOnline ELSE NoChild]] :
              n \in Children, size \in Clusters,
              cap \in [Children -> Clusters],
              filler \in [Children -> 0 .. MaxClusters]} :
        \A i \in Children : x.filler[i] <= x.cap[i]}

InitThin ==
    /\ heap = Exported.heap
    /\ tgt = Exported.tgt
    /\ tasks = [t \in Tasks |-> IdleTask]
    /\ ana_env = "unset"
    /\ bdevs = <<>>
    /\ ctrlrs = [c \in Ctrlrs |->
                   IF c = 1 THEN [cpl_error_cb |-> "nexus_cpl_error_cb"]
                   ELSE NoCtrlr]
    /\ ev = NoEvent
    /\ cpl = NoCpl
    /\ thin \in Nexuses

NextThin ==
    \/ \E c \in Ctrlrs : NexusWrite(c)
    \/ \E i \in Children : DestroyFiller(i)
    \/ \E i \in Children : OnlineChild(i)
    \/ \E i \in Children : RebuildDone(i)

SpecThin == InitThin /\ [][NextThin]_vars

(***************************************************************************)
(* Properties.                                                             *)
(***************************************************************************)
AllBusy(seq) == \A i \in 1 .. Len(seq) : seq[i] = EBUSY
LifecycleOps == {"start", "stop", "pause", "resume"}
Destroyed(p) == heap[p].alloc = "freed" \/ heap[p].destroying

\* C1: while the transition function keeps returning EBUSY, change_state calls
\* it at most 4 times and sleeps at most 3 times, once after each busy attempt
\* but the fourth, and after the fourth busy attempt it returns SubsystemBusy
\* without having waited for a completion callback.
C1_BusyRetryBounded ==
    \A t \in Tasks :
        LET tk == tasks[t] IN
        /\ Len(tk.rcs) <= 4
        /\ tk.sleeps <= 3
        /\ (tk.op \in LifecycleOps /\ tk.rcs # <<>> /\ AllBusy(tk.rcs)) =>
            /\ ~tk.waited
            /\ Len(tk.rcs) < 4 => (tk.pc = "sleep" /\ tk.sleeps = Len(tk.rcs))
            /\ Len(tk.rcs) = 4 =>
                /\ tk.pc = "done"
                /\ tk.sleeps = 3
                /\ tk.res.kind = "SubsystemBusy"
                /\ tk.res.op = tk.op

\* C1 witness: an operation that ended SubsystemBusy after four busy attempts
C1_Witness ==
    \E t \in Tasks :
        /\ tasks[t].pc = "done"
        /\ Len(tasks[t].rcs) = 4
        /\ AllBusy(tasks[t].rcs)
        /\ tasks[t].sleeps = 3
        /\ tasks[t].res.kind = "SubsystemBusy"

\* C2: when the transition function returns EBUSY k times (k <= 3) and then 0,
\* change_state has made exactly k+1 calls and k sleeps, waits for the
\* callback of the accepted request, and returns Ok for status 0 and the
\* "<op> failed" error carrying the errno for a nonzero status.
C2_AcceptedAfterBusy ==
    \A t \in Tasks :
        LET tk == tasks[t]
            k == Len(tk.rcs) - 1
        IN  (tk.op \in LifecycleOps /\ \E i \in 1 .. Len(tk.rcs) : tk.rcs[i] = 0) =>
            /\ Last(tk.rcs) = 0
            /\ AllBusy(SubSeq(tk.rcs, 1, k))
            /\ k <= 3
            /\ tk.sleeps = k
            /\ tk.waited
            /\ tk.pc \in {"state_wait", "done"}
            /\ (tk.pc = "state_wait" /\ ~tk.fired) =>
                   heap[tk.ss].changing = [fn |-> OpFn(tk.op), task |-> t]
            /\ (tk.pc = "done" /\ tk.cbst = 0) => tk.res.kind = "Ok"
            /\ (tk.pc = "done" /\ tk.cbst # 0) =>
                /\ tk.res.kind = "Subsystem"
                /\ tk.res.source = -tk.cbst
                /\ tk.res.msg = tk.op \o " failed"

\* C2 witness: EBUSY three times, then 0, then a callback with status 0
C2_Witness ==
    \E t \in Tasks :
        /\ tasks[t].pc = "done"
        /\ tasks[t].rcs = <<EBUSY, EBUSY, EBUSY, 0>>
        /\ tasks[t].cbst = 0
        /\ tasks[t].res.kind = "Ok"

\* C3: when a call of the transition function returns a nonzero code other
\* than EBUSY, change_state returns the "failed to initiate" error carrying
\* that errno at once: no further call, no sleep after it, no wait for a
\* callback.
C3_RefusedReturnsAtOnce ==
    \A t \in Tasks :
        LET tk == tasks[t] IN
        (tk.op \in LifecycleOps
            /\ \E i \in 1 .. Len(tk.rcs) : tk.rcs[i] \notin {0, EBUSY}) =>
            /\ Last(tk.rcs) \notin {0, EBUSY}
            /\ tk.pc = "done"
            /\ tk.res.kind = "Subsystem"
            /\ tk.res.source = Last(tk.rcs)
            /\ tk.res.msg = "failed to initiate " \o tk.op
            /\ ~tk.waited
            /\ tk.sleeps = Len(tk.rcs) - 1

\* C3 witness: a refusal that follows a busy attempt
C3_Witness ==
    \E t \in Tasks :
        /\ tasks[t].pc = "done"
        /\ Len(tasks[t].rcs) = 2
        /\ tasks[t].rcs[1] = EBUSY
        /\ tasks[t].rcs[2] \in ForeignErrnos

\* C4 (as claimed): whenever start has returned an error, the destruction of
\* the subsystem has been initiated, so no live subsystem with that NQN is
\* left in the registry.
C4_StartFailureDestroys ==
    \A t \in Tasks :
        (tasks[t].pc = "done" /\ tasks[t].op = "start" /\ IsErr(tasks[t].res))
            => Destroyed(tasks[t].ss)

\* C5: no two subsystems of the registry have the same NQN, and a creation
\* (new, try_from_with) for a uuid whose NQN is registered returns an error
\* and leaves the registry and its subsystems as they were.
NqnUnique ==
    \A i, j \in 1 .. Len(tgt) :
        heap[tgt[i]].nqn = heap[tgt[j]].nqn => i = j

CreateOfRegistered(t) ==
    /\ tasks[t].pc = "idle"
    /\ tasks'[t].pc = "done"
    /\ tasks'[t].op \in {"new", "try_from_with"}
    /\ InRegistry(heap, tgt, make_nqn(tasks'[t].uuid))

C5_NqnUnique ==
    /\ []NqnUnique
    /\ [][\A t \in Tasks : CreateOfRegistered(t) =>
            (IsErr(tasks'[t].res) /\ tgt' = tgt /\ heap' = heap)]_vars

\* C5 witness: new has returned EEXIST for an NQN that is registered
C5_Witness ==
    \E t \in Tasks :
        /\ tasks[t].pc = "done"
        /\ tasks[t].op = "new"
        /\ tasks[t].res = ErrSubsystem(EEXIST, tasks[t].uuid, "ss ptr is null")
        /\ InRegistry(heap, tgt, make_nqn(tasks[t].uuid))
        /\ Len(tgt) = 2

\* C6 (as claimed): when new has allocated the subsystem and the serial or
\* the model number cannot be installed, the subsystem is destroyed before
\* the error is returned.
C6_NewFailureDestroys ==
    \A t \in Tasks :
        (/\ tasks[t].pc = "done"
         /\ tasks[t].op = "new"
         /\ tasks[t].res.kind = "Subsystem"
         /\ tasks[t].res.msg \in {"failed to set serial",
                                  "failed to set model number"})
            => Destroyed(tasks[t].created)

\* C7 (as claimed): when try_from_with fails after the subsystem was created
\* (ANA reporting, namespace), the subsystem is destroyed before the error is
\* returned; when the bdev is claimed it fails without creating one.
C7_TryFromFailureDestroys ==
    \A t \in Tasks :
        LET tk == tasks[t] IN
        (tk.pc = "done" /\ tk.op = "try_from_with" /\ IsErr(tk.res)) =>
            /\ tk.res.kind = "CreateTarget" => tk.created = NULL
            /\ (tk.res.kind = "Namespace"
                \/ (tk.res.kind = "Subsystem"
                    /\ tk.res.msg = "failed to set ANA reporting"))
                   => Destroyed(tk.created)

\* C8 (as claimed): once the destruction of a subsystem has been initiated,
\* a later shutdown_unsafe returns -EALREADY, and the foreign destroy is
\* invoked at most once per subsystem.
C8_DestroyOnce ==
    /\ \A p \in Ptrs : heap[p].destroy_calls <= 1
    /\ \A t \in Tasks :
        (/\ tasks[t].pc = "done"
         /\ tasks[t].op = "shutdown_unsafe"
         /\ tasks[t].destroy_at = "Destroying")
            => tasks[t].res.val = -EALREADY

\* C9 (as claimed): wherever the core calls for the destruction of a
\* subsystem (start's failure path, try_from_with's failure path,
\* shutdown_unsafe), the subsystem is not Active.
C9_DestroyNeverActive ==
    \A t \in Tasks : tasks[t].destroy_at # "Active"

\* C10: the state of a subsystem changes only along the edges of the
\* lifecycle, each driven by the operation that names it; Destroying is
\* terminal.
LegalEdges ==
    {<<"Inactive", "start", "Active">>,
     <<"Active", "stop", "Inactive">>,
     <<"Active", "pause", "Paused">>,
     <<"Paused", "resume", "Active">>,
     <<"Paused", "stop", "Inactive">>,
     <<"Inactive", "destroy", "Destroying">>,
     <<"Paused", "destroy", "Destroying">>}

\* the operation that drives the state change of p in this step
DrivenBy(p) ==
    IF heap'[p].destroying /\ ~heap[p].destroying THEN "destroy"
    ELSE IF heap[p].changing # NoReq THEN tasks[heap[p].changing.task].op
    ELSE "none"

C10_LegalEdgesOnly ==
    [][\A p \in Ptrs :
        (/\ heap[p].alloc = "live"
         /\ heap'[p].alloc = "live"
         /\ SpecState(heap'[p]) # SpecState(heap[p]))
            => <<SpecState(heap[p]), DrivenBy(p), SpecState(heap'[p])>>
                   \in LegalEdges]_vars

\* C10 witness: a subsystem that was started, paused and then destroyed
C10_Witness ==
    \E p \in Ptrs :
        /\ heap[p].alloc = "live"
        /\ heap[p].state = "Paused"
        /\ heap[p].destroying

\* C11: a stop, pause or resume that returns an error has not changed the
\* state of the subsystem: the state changes only in the step in which the
\* callback of an accepted request delivers status 0 to the task that made
\* it, or in a destroy made by start or shutdown_unsafe, and a call whose
\* request was completed with status 0 never returns an error.
QuietOps == {"stop", "pause", "resume"}

FailedQuietly(t) ==
    (tasks[t].pc = "done" /\ tasks[t].op \in QuietOps /\ IsErr(tasks[t].res))
        => ~(tasks[t].waited /\ tasks[t].cbst = 0)

StateMovedBy(p) ==
    \/ /\ heap'[p].destroying
       /\ \E t \in Tasks : /\ tasks'[t] # tasks[t]
                           /\ tasks'[t].op \in {"start", "shutdown_unsafe"}
                           /\ tasks'[t].ss = p
    \/ /\ heap[p].changing # NoReq
       /\ tasks[heap[p].changing.task].pc = "state_wait"
       /\ tasks'[heap[p].changing.task].fired
       /\ tasks'[heap[p].changing.task].cbst = 0

C11_FailureKeepsState ==
    /\ [](\A t \in Tasks : FailedQuietly(t))
    /\ [][\A p \in Ptrs :
            (/\ heap[p].alloc = "live"
             /\ heap'[p].alloc = "live"
             /\ SpecState(heap'[p]) # SpecState(heap[p])) => StateMovedBy(p)]_vars

\* C11 witness: a pause that was accepted and completed with a nonzero status
\* has returned its error, and the subsystem is still Active
C11_Witness ==
    \E t \in Tasks :
        /\ tasks[t].pc = "done"
        /\ tasks[t].op = "pause"
        /\ tasks[t].waited
        /\ tasks[t].res.kind = "Subsystem"
        /\ heap[tasks[t].ss].state = "Active"
        /\ ~heap[tasks[t].ss].destroying

\* C12: a set_allowed_hosts(S) that returns Ok, with no other task changing
\* the list meanwhile, leaves the allowed-host set equal to S when S is not
\* empty; with S empty it returns Ok at once, leaves the list as it was and
\* issues no foreign call (no disallow, no disconnect).
StartsSetAllowedHosts(t) ==
    /\ tasks[t].pc = "idle"
    /\ tasks'[t].op = "set_allowed_hosts"

ReconciledTo(t) ==
    (/\ tasks[t].pc = "done"
     /\ tasks[t].op = "set_allowed_hosts"
     /\ tasks[t].res.kind = "Ok"
     /\ tasks[t].alone
     /\ tasks[t].arg # <<>>)
        => Range(allowed_hosts(heap, tasks[t].ss)) = Range(tasks[t].arg)

EmptyIsNoOp(t) ==
    (StartsSetAllowedHosts(t) /\ tasks'[t].arg = <<>>) =>
        /\ heap' = heap
        /\ tasks'[t].pc = "done"
        /\ tasks'[t].res.kind = "Ok"
        /\ tasks'[t].fcalls = 0
        /\ tasks'[t].disallowed = <<>>
        /\ tasks'[t].disconnects = <<>>

C12_SetAllowedHostsResult ==
    /\ [](\A t \in Tasks : ReconciledTo(t))
    /\ [][\A t \in Tasks : EmptyIsNoOp(t)]_vars

\* C12 witness: {A, ..} reconciled to [B, C]: A was removed and disconnected
C12_Witness ==
    \E t \in Tasks :
        /\ tasks[t].pc = "done"
        /\ tasks[t].op = "set_allowed_hosts"
        /\ tasks[t].res.kind = "Ok"
        /\ tasks[t].alone
        /\ tasks[t].arg = <<HostOrder[2], HostOrder[3]>>
        /\ tasks[t].disconnects = <<HostOrder[1]>>
        /\ allowed_hosts(heap, tasks[t].ss) = <<HostOrder[2], HostOrder[3]>>

\* C13: in a set_allowed_hosts(S) with S not empty, disconnect_host is issued
\* only for hosts that were allowed before the call and are not in S, at
\* most once for each and only after that host has been disallowed; when the
\* call returns Ok it has been issued for every such host.
NoRepeat(seq) == \A i, j \in 1 .. Len(seq) : seq[i] = seq[j] => i = j
IsPrefix(a, b) == Len(a) <= Len(b) /\ \A i \in 1 .. Len(a) : a[i] = b[i]
Planned(tk) == tk.disallowed \o tk.todo
Failed(tk) == tk.pc = "done" /\ IsErr(tk.res)

DisconnectsInOrder(t) ==
    tasks[t].op = "set_allowed_hosts" =>
        /\ NoRepeat(tasks[t].disconnects)
        /\ Range(tasks[t].disconnects) \cap Range(tasks[t].arg) = {}
        /\ IsPrefix(tasks[t].disconnects, tasks[t].disallowed)
        /\ (tasks[t].pc = "done" /\ tasks[t].res.kind = "Ok") =>
               (tasks[t].todo = <<>> /\ tasks[t].disconnects = tasks[t].disallowed)

PlanIsPriorMinusArg(t) ==
    (StartsSetAllowedHosts(t) /\ tasks'[t].arg # <<>> /\ ~Failed(tasks'[t])) =>
        /\ NoRepeat(Planned(tasks'[t]))
        /\ Range(Planned(tasks'[t])) =
               Range(allowed_hosts(heap, tasks'[t].ss)) \ Range(tasks'[t].arg)

PlanIsKept(t) ==
    (/\ tasks[t].op = "set_allowed_hosts"
     /\ tasks[t].pc = "disc_wait"
     /\ ~Failed(tasks'[t])) => Planned(tasks'[t]) = Planned(tasks[t])

C13_DisconnectRemovedOnce ==
    /\ [](\A t \in Tasks : DisconnectsInOrder(t))
    /\ [][\A t \in Tasks : PlanIsPriorMinusArg(t) /\ PlanIsKept(t)]_vars

\* C13 witness: two hosts were allowed and neither is in S: both have been
\* disallowed and disconnected, one after the other
C13_Witness ==
    \E t \in Tasks :
        /\ tasks[t].pc = "done"
        /\ tasks[t].op = "set_allowed_hosts"
        /\ tasks[t].res.kind = "Ok"
        /\ tasks[t].arg = <<HostOrder[3]>>
        /\ tasks[t].disconnects = <<HostOrder[1], HostOrder[2]>>

\* C14: allow_host, disallow_host and disconnect_host called with a host NQN
\* that has an interior NUL return HostCstrNul in the same run, make no
\* foreign call and leave the subsystem, its allowed-host list included, as
\* it was.
HasNul(host) == \E i \in 1 .. Len(host) : host[i] = NUL
SingleHostOps == {"allow_host", "disallow_host", "disconnect_host"}

NulIsRefused(t) ==
    (/\ tasks[t].pc = "idle"
     /\ tasks'[t].op \in SingleHostOps
     /\ HasNul(tasks'[t].arg[1])) =>
        /\ tasks'[t].pc = "done"
        /\ tasks'[t].res = ErrHostCstrNul(tasks'[t].arg[1])
        /\ tasks'[t].fcalls = 0
        /\ tasks'[t].disconnects = <<>>
        /\ heap' = heap

C14_NulHostRefused == [][\A t \in Tasks : NulIsRefused(t)]_vars

\* C14 witness: disconnect_host has returned HostCstrNul while a host is allowed
C14_Witness ==
    \E t \in Tasks :
        /\ tasks[t].pc = "done"
        /\ tasks[t].op = "disconnect_host"
        /\ tasks[t].res = ErrHostCstrNul(BadHostNqn)
        /\ allowed_hosts(heap, tasks[t].ss) # <<>>

\* C15: every subsystem has at most one namespace and its NSID is 1; an
\* add_namespace(bdev) that returns Ok has made bdev the device bdev()
\* returns; when the foreign call yields an NSID below 1 (a namespace is
\* attached already, the bdev is claimed, the target refuses) add_namespace
\* returns the Namespace error and the namespaces are as they were.
OneNamespace ==
    \A p \in Ptrs :
        heap[p].alloc = "live" =>
            /\ Cardinality(UsedNsids(heap[p])) <= 1
            /\ UsedNsids(heap[p]) \subseteq {1}

AddNamespaceOutcome(t) ==
    (tasks[t].pc = "idle" /\ tasks'[t].op = "add_namespace") =>
        LET tk == tasks'[t] IN
        /\ tk.pc = "done"
        /\ tk.res.kind = "Ok" => (tk.ns_id = 1 /\ bdev_of(heap', tk.ss) = tk.uuid)
        /\ tk.ns_id < 1 =>
            /\ tk.res = ErrNamespace(tk.uuid, "failed to add namespace ID")
            /\ heap'[tk.ss].ns = heap[tk.ss].ns
        /\ tk.res.kind \in {"Ok", "Namespace"}

C15_OneNamespace ==
    /\ []OneNamespace
    /\ [][\A t \in Tasks : AddNamespaceOutcome(t)]_vars

\* C15 witness: add_namespace was refused on a subsystem that has a namespace
\* of another device, which is still there
C15_Witness ==
    \E t \in Tasks :
        /\ tasks[t].pc = "done"
        /\ tasks[t].op = "add_namespace"
        /\ tasks[t].res.kind = "Namespace"
        /\ bdev_of(heap, tasks[t].ss) \notin {NoStr, tasks[t].uuid}


\* the last completion went through the nexus / the replica interceptor
ThroughNexusCb == cpl.by = "nexus_cpl_error_cb"
ThroughReplicaCb == cpl.by = "replica_cpl_error_cb"
\* Generic RESERVATION_CONFLICT or Generic CAPACITY_EXCEEDED
ConflictOrCapacity(status) ==
    /\ status.sct = SPDK_NVME_SCT_GENERIC
    /\ status.sc \in {SPDK_NVME_SC_RESERVATION_CONFLICT,
                      SPDK_NVME_SC_CAPACITY_EXCEEDED}

\* C16: the nexus completion interceptor leaves a completion whose CRD is 0
\* as it was; with a nonzero CRD it sets CRD to 2 exactly for Generic
\* RESERVATION_CONFLICT and Generic CAPACITY_EXCEEDED and keeps the CRD
\* otherwise; the status code type and the status code never change.
C16_NexusInterceptor ==
    ThroughNexusCb =>
        /\ cpl.in.crd = 0 => cpl.out = cpl.in
        /\ cpl.in.crd # 0 =>
              cpl.out.crd = IF ConflictOrCapacity(cpl.in) THEN 2
                            ELSE cpl.in.crd
        /\ cpl.out.sct = cpl.in.sct
        /\ cpl.out.sc = cpl.in.sc
        /\ cpl.out.dnr = cpl.in.dnr

C16_Witness ==
    /\ ThroughNexusCb
    /\ cpl.in.crd = 1
    /\ ConflictOrCapacity(cpl.in)
    /\ cpl.out.crd = 2

\* C17: the replica completion interceptor sets CRD to 3 exactly when the
\* CRD was 1, and rewrites the status to Generic CAPACITY_EXCEEDED exactly
\* when is_no_space() holds for the status it was given; otherwise CRD,
\* status code type and status code are kept.
C17_ReplicaInterceptor ==
    ThroughReplicaCb =>
        /\ cpl.out.crd = IF cpl.in.crd = 1 THEN 3 ELSE cpl.in.crd
        /\ is_no_space(NvmeStatusOf(cpl.in)) =>
              /\ cpl.out.sct = SPDK_NVME_SCT_GENERIC
              /\ cpl.out.sc = SPDK_NVME_SC_CAPACITY_EXCEEDED
        /\ ~is_no_space(NvmeStatusOf(cpl.in)) =>
              /\ cpl.out.sct = cpl.in.sct
              /\ cpl.out.sc = cpl.in.sc
        /\ cpl.out.dnr = cpl.in.dnr

C17_Witness ==
    /\ ThroughReplicaCb
    /\ is_no_space(NvmeStatusOf(cpl.in))
    /\ cpl.in.crd = 1
    /\ cpl.out.crd = 3
    /\ cpl.out.sc = SPDK_NVME_SC_CAPACITY_EXCEEDED

\* the slot of controller c
Slot(c) == ctrlrs[c].cpl_error_cb
\* the slot an event leaves, given the slot it found
SlotAfter(e, old) ==
    CASE e.kind = "HostConnect" /\ e.target = "Nexus" -> "nexus_cpl_error_cb"
      [] e.kind = "HostConnect" /\ e.target = "Replica" -> "replica_cpl_error_cb"
      [] e.kind = "HostDisconnect" /\ e.target \in {"Nexus", "Replica"} -> "none"
      [] OTHER -> old
\* the last event handled decides the slot of its controller
LastEventDecides ==
    ev.kind \in EventKinds => Slot(ev.ctrlr) = SlotAfter(ev, Slot(ev.ctrlr))
\* an event moves the slot of its controller as SlotAfter says, and no
\* other slot; nothing else moves a slot
SlotsMoveByEvents ==
    \A c \in Ctrlrs :
        ctrlrs'[c].cpl_error_cb =
            IF ev' # ev /\ ev'.ctrlr = c
            THEN SlotAfter(ev', Slot(c))
            ELSE Slot(c)

\* C18: the completion-error callback slot of a controller follows the
\* events delivered for it: a HostConnect classified as Nexus installs the
\* nexus interceptor, one classified as Replica the replica interceptor, a
\* HostDisconnect classified as Nexus or Replica clears the slot, and KATO
\* events, Unknown events and events whose target is None leave it alone.
C18_SlotFollowsEvents == []LastEventDecides /\ [][SlotsMoveByEvents]_vars

C18_Witness ==
    /\ Slot(1) = "replica_cpl_error_cb"
    /\ Slot(2) = "none"
    /\ ev.kind = "HostDisconnect"
    /\ ev.ctrlr = 1
    /\ ev.target = "None"

\* the calls on the nexus the dispatcher owes for an event
CallsOwed(e) ==
    CASE e.target = "Nexus" /\ e.kind = "HostConnect" ->
              <<<<"add_initiator", hostnqn(e.ctrlr)>>>>
      [] e.target = "Nexus" /\ e.kind = "HostDisconnect" ->
              <<<<"rm_initiator", hostnqn(e.ctrlr)>>>>
      [] e.target = "Nexus" /\ e.kind = "HostKeepAliveTimeout" ->
              <<<<"initiator_keep_alive_timeout", hostnqn(e.ctrlr)>>>>
      [] OTHER -> <<>>

\* C19: for every event the dispatcher handles it makes exactly one call on
\* the nexus when the target is a Nexus (add_initiator, rm_initiator or
\* initiator_keep_alive_timeout, with the host NQN of the controller) and no
\* call when the target is a Replica or None or the event is Unknown; and
\* the handler returns.
C19_InitiatorCalls ==
    ev.kind \in EventKinds => ev.returned /\ ev.calls = CallsOwed(ev)

C19_Witness ==
    /\ ev.kind = "HostKeepAliveTimeout"
    /\ ev.target = "Nexus"
    /\ ev.ctrlr = 2
    /\ ev.calls = <<<<"initiator_keep_alive_timeout", <<"B">>>>>>
    /\ ev.returned

\* the devices of a registry with this module whose name makes this NQN
Exports(devs, driver, nqn) ==
    {i \in 1 .. Len(devs) :
        /\ devs[i].driver = driver
        /\ ":" \notin Range(devs[i].name)
        /\ nqn = NVME_NQN_PREFIX \o <<":">> \o devs[i].name}
\* the classification the registry calls for
TargetOwed(nqn, devs) ==
    IF Exports(devs, NEXUS_MODULE_NAME, nqn) # {}
    THEN "Nexus"
    ELSE IF \E i \in Exports(devs, "lvol", nqn) : devs[i].is_lvol
         THEN "Replica"
         ELSE "None"

\* C20: NqnTarget::lookup returns Nexus when the NQN is <prefix>:<name> and
\* a nexus device has that name, Replica when an lvol device has that name
\* and converts to an Lvol, and None otherwise: for another prefix, for an
\* NQN with no or with more than one ':', and for an empty registry.
C20_LookupClassifies ==
    ev.kind = "lookup" => ev.target = TargetOwed(ev.nqn, bdevs)

C20_Witness ==
    /\ ev.kind = "lookup"
    /\ ev.nqn = <<"x", ":", "a">>
    /\ Len(bdevs) = MaxBdevs
    /\ bdevs[2].name = <<"a">>
    /\ bdevs[2].driver = NEXUS_MODULE_NAME
    /\ ev.target = "None"

\* C21: the NQN made of a name parses back, the way NqnTarget::lookup
\* parses it (prefix, separator, name), to exactly that name.
C21_NqnRoundTrip ==
    \A t \in Tasks :
        tasks[t].op = "make_nqn" =>
            tasks[t].res = [kind |-> "Name", name |-> tasks[t].uuid]

\* task t returns from set_ana_reporting in this step
ReturnsSetAna(t) ==
    /\ tasks[t].pc = "idle"
    /\ tasks'[t].op = "set_ana_reporting"
\* nothing but the ANA reporting of the subsystem of the call may differ
AnaOnly(s) ==
    \A p \in Ptrs :
        heap'[p] = IF p = s
                   THEN [heap[p] EXCEPT !.ana_reporting = heap'[p].ana_reporting]
                   ELSE heap[p]
SetAnaGated ==
    \A t \in Tasks :
        ReturnsSetAna(t) =>
            /\ AnaOnly(tasks'[t].ss)
            /\ ana_env # "1" =>
                  /\ tasks'[t].res = Ok(NULL)
                  /\ tasks'[t].fcalls = 0
                  /\ heap' = heap
            /\ ana_env = "1" =>
                  /\ tasks'[t].fcalls = 1
                  /\ ~IsErr(tasks'[t].res) =>
                        heap'[tasks'[t].ss].ana_reporting = tasks'[t].enable

\* C22: set_ana_reporting(enable) is gated on NEXUS_NVMF_ANA_ENABLE: with
\* the flag unset or different from "1" the call returns Ok, makes no
\* foreign call and leaves ana_reporting as it was, whatever enable is;
\* with the flag "1" the foreign call is made.
C22_AnaGated == [][SetAnaGated]_vars

C22_Witness ==
    \E t \in Tasks :
        /\ tasks[t].op = "set_ana_reporting"
        /\ tasks[t].enable
        /\ ana_env = "0"
        /\ tasks[t].res = Ok(NULL)
        /\ tasks[t].fcalls = 0
        /\ ~heap[tasks[t].ss].ana_reporting

\* the subsystems of the registry with this NQN
Registered(nqn) == {tgt[i] : i \in {j \in 1 .. Len(tgt) : heap[tgt[j]].nqn = nqn}}
\* what a lookup of uuid owes its caller
LookupOwed(uuid) ==
    IF Registered(make_nqn(uuid)) = {}
    THEN {None}
    ELSE {Some(s) : s \in Registered(make_nqn(uuid))}
NqnLookupTotal ==
    \A t \in Tasks :
        tasks[t].pc = "idle" /\ tasks'[t].op = "nqn_lookup" =>
            /\ tasks'[t].pc = "done"
            /\ tasks'[t].res \in LookupOwed(tasks'[t].uuid)

\* C23: nqn_lookup(uuid) returns Some(subsystem) when a subsystem with the
\* NQN make_nqn(uuid) is in the registry and None otherwise, for every
\* registry, the empty one included; it never fails or aborts.
C23_NqnLookupTotal == [][NqnLookupTotal]_vars

\* C24: stop_all calls stop once on every subsystem of the registry, in
\* registry order; a stop that fails is logged and the loop goes on to the
\* remaining subsystems; stop_all itself returns no error.
C24_StopAllStopsAll ==
    \A t \in Tasks :
        tasks[t].op = "stop_all" =>
            /\ IsPrefix(tasks[t].stopped, tgt)
            /\ tasks[t].pc = "done" =>
                  /\ tasks[t].stopped = tgt
                  /\ tasks[t].res = Ok(NULL)

C24_Witness ==
    \E t \in Tasks :
        /\ tasks[t].op = "stop_all"
        /\ tasks[t].pc = "done"
        /\ Len(tgt) = 2
        /\ tasks[t].stopped = tgt
        /\ tasks[t].errs = 1
        /\ heap[tgt[1]].state = "Active"
        /\ heap[tgt[2]].state = "Inactive"

\* C25: a nonzero errno of the foreign disconnect-host call comes back to the
\* caller of disconnect_host as a Subsystem error: the errno of the
\* completion callback, and the errno of the return code of a request the
\* foreign call refuses, for which disconnect_host waits for no callback.
C25_DisconnectErrno ==
    \A t \in Tasks :
        tasks[t].op = "disconnect_host" =>
            /\ tasks[t].pc = "disc_wait" => tasks[t].pending \/ tasks[t].fired
            /\ tasks[t].pc = "done" /\ tasks[t].fcalls > 0 /\ tasks[t].cbst # 0 =>
                  /\ IsErr(tasks[t].res)
                  /\ tasks[t].res.kind = ErrSubsystem(0, NoStr, NoStr).kind


\* C28: two tasks run lifecycle operations on one subsystem with overlapping
\* suspension points: at any moment at most one of them has an accepted
\* transition whose completion callback is still to come, and it is the
\* transition the target holds as in flight.
AwaitingCallback(s) ==
    {t \in Tasks : /\ tasks[t].ss = s
                   /\ tasks[t].op \in LifecycleOps
                   /\ tasks[t].pc = "state_wait"
                   /\ ~tasks[t].fired}
C28_OneInFlight ==
    \A s \in Ptrs :
        /\ Cardinality(AwaitingCallback(s)) <= 1
        /\ \A t \in AwaitingCallback(s) :
              /\ heap[s].changing # NoReq
              /\ heap[s].changing.task = t
C28_Witness ==
    \E s \in Ptrs, t, u \in Tasks :
        /\ t # u
        /\ AwaitingCallback(s) = {t}
        /\ tasks[u].ss = s
        /\ tasks[u].op \in LifecycleOps
        /\ tasks[u].pc = "sleep"
        /\ tasks[u].rcs # <<>>


\* C30: shutdown_unsafe first tries to remove NSID 1 and then calls
\* destroy_unsafe, whether the removal succeeded or failed, and returns what
\* destroy_unsafe returned: 0 with the destruction initiated, or -EALREADY.
ShutdownReturned(t) ==
    tasks[t].op = "shutdown_unsafe" /\ tasks[t].pc = "done"
C30_ShutdownOrder ==
    \A t \in Tasks :
        ShutdownReturned(t) =>
            /\ Len(tasks[t].calls) = 2
            /\ tasks[t].calls[1].fn = "spdk_nvmf_subsystem_remove_ns"
            /\ tasks[t].calls[1].nsid = 1
            /\ tasks[t].calls[2].fn = "destroy_unsafe"
            /\ tasks[t].res = [kind |-> "Int", val |-> tasks[t].calls[2].rc]
            /\ tasks[t].res.val \in {0, -EALREADY}
            /\ heap[tasks[t].ss].alloc = "live" =>
                  /\ heap[tasks[t].ss].destroying
                  /\ heap[tasks[t].ss].ns[FirstNsid] = NoStr
C30_Witness ==
    \E t \in Tasks :
        /\ ShutdownReturned(t)
        /\ tasks[t].calls[1].rc # 0
        /\ tasks[t].res.val = 0
        /\ heap[tasks[t].ss].alloc = "live"


\* C29: a set_allowed_hosts call reads no entry of the foreign host list after
\* it has removed one: the traversal reads the entries in one run that ends
\* before the first disallow_host, and every host the loop removes afterwards
\* is a copy of an NQN the traversal read.
ReadsOf(t) ==
    {i \in 1 .. Len(tasks[t].log) : tasks[t].log[i].kind = "read"}
RemovesOf(t) ==
    {i \in 1 .. Len(tasks[t].log) : tasks[t].log[i].kind = "remove"}
CopiedBy(t) == {tasks[t].log[i].host : i \in ReadsOf(t)}
ReadsBeforeRemoves ==
    \A t \in Tasks :
        tasks[t].op = "set_allowed_hosts" =>
            /\ \A i \in ReadsOf(t), j \in RemovesOf(t) : i < j
            /\ Range(tasks[t].todo) \subseteq CopiedBy(t)
            /\ \A j \in RemovesOf(t) : tasks[t].log[j].host \in CopiedBy(t)
\* the traversal is one uninterrupted run: the step of a call that reads
\* entries reads the whole list as that step leaves it, removals aside, and
\* no later step of the call reads again
TraversalUninterrupted ==
    \A t \in Tasks :
        /\ tasks[t].pc \notin {"idle", "done"} => ReadsOf(t)' = ReadsOf(t)
        /\ tasks[t].pc = "idle" /\ tasks'[t].op = "set_allowed_hosts"
              /\ tasks'[t].log # <<>> =>
              \A x \in Range(heap'[tasks'[t].ss].hosts) : x \in CopiedBy(t)'
C29_ReadsBeforeRemoves ==
    []ReadsBeforeRemoves /\ [][TraversalUninterrupted]_vars
C29_Witness ==
    \E t, u \in Tasks :
        /\ t # u
        /\ tasks[t].op = "set_allowed_hosts"
        /\ tasks[u].op = "set_allowed_hosts"
        /\ Cardinality(RemovesOf(t)) = 2
        /\ Cardinality(ReadsOf(t)) = 3
        /\ ~tasks[t].alone


\* C26: a nexus whose only replica is thin and larger than its pool: a write
\* the pool has the clusters for succeeds; a write it has not the clusters
\* for fails at the initiator with ENOSPC, the completion reaching the host
\* being Generic CAPACITY_EXCEEDED.
WriteNeeds(i) == Cardinality(thin'.wr.range \ thin.alloc[i])
ThinWriteOutcome ==
    thin.n = 1 /\ thin.size > thin.cap[1] /\ thin'.wr.kind = "write" =>
        /\ WriteNeeds(1) <= pool_free(thin, 1) => thin'.wr.errno = 0
        /\ WriteNeeds(1) > pool_free(thin, 1) =>
              /\ thin'.wr.errno = ENOSPC
              /\ NvmeStatusOf(cpl'.out) =
                    <<"Generic", SPDK_NVME_SC_CAPACITY_EXCEEDED>>
C26_ThinWriteEnospc == [][ThinWriteOutcome]_vars
C26_Witness ==
    /\ thin.n = 1
    /\ thin.size > thin.cap[1]
    /\ thin.good
    /\ thin.wr.kind = "write"
    /\ thin.wr.errno = ENOSPC
    /\ cpl.by = "nexus_cpl_error_cb"
    /\ cpl.in.crd # 0

\* C27: a nexus over two thin replicas, a write only the pool of the first
\* has no room for: the write succeeds, the first child is Degraded with
\* reason NoSpace and the nexus keeps both children. Once the space of that
\* pool is freed and the child is onlined, the child is Degraded with reason
\* OutOfSync.
DegradesOnNoSpace ==
    /\ thin.n = 2
    /\ thin.child[1] = ChildOnline /\ thin.child[2] = ChildOnline
    /\ thin'.wr.kind = "write"
    /\ WriteNeeds(1) > pool_free(thin, 1)
    /\ WriteNeeds(2) <= pool_free(thin, 2)
    => /\ thin'.wr.errno = 0
       /\ thin'.child[1] = ChildDegraded("NoSpace")
       /\ thin'.child[2] = ChildOnline
       /\ thin'.n = 2
OnlinedIsOutOfSync ==
    \A i \in Children :
        /\ thin.child[i] = ChildDegraded("NoSpace")
        /\ i \in thin.freed
        /\ thin'.wr.kind = "online" /\ thin'.wr.child = i
        => /\ thin'.child[i] = ChildDegraded("OutOfSync")
           /\ thin'.n = thin.n
           /\ \A j \in Children \ {i} : thin'.child[j] = thin.child[j]
C27_DegradedThenOutOfSync ==
    [][DegradesOnNoSpace /\ OnlinedIsOutOfSync]_vars
C27_Witness ==
    /\ thin.n = 2
    /\ thin.good
    /\ thin.freed = {1}
    /\ thin.wr.kind = "online"
    /\ thin.wr.child = 1
    /\ thin.child[1] = ChildDegraded("OutOfSync")
    /\ thin.child[2] = ChildOnline


\* C31: set_ana_state changes the ANA state of the replica-port listener only
\* of a subsystem that is Paused or Inactive; a call made while the subsystem
\* is Active returns an error and leaves the ANA state as it was.
AnaStateGuarded ==
    \A s \in Ptrs :
        heap'[s].ana_state # heap[s].ana_state =>
            /\ heap[s].state \in {"Paused", "Inactive"}
            /\ trid_replica \in heap[s].listeners
            /\ \E t \in Tasks : /\ Idle(t)
                                /\ tasks'[t].op = "set_ana_state"
                                /\ tasks'[t].ss = s
                                /\ heap'[s].ana_state = tasks'[t].arg[1]
ActiveCallFails ==
    \A t \in Tasks :
        tasks[t].op = "set_ana_state" /\ tasks[t].called_at = "Active" =>
            /\ tasks[t].cbst # 0
            /\ tasks[t].pc = "done" =>
                  /\ IsErr(tasks[t].res)
                  /\ tasks[t].res.kind = ErrSubsystem(0, NoStr, NoStr).kind
C31_AnaStateNeedsPaused == []ActiveCallFails /\ [][AnaStateGuarded]_vars
C31_Witness ==
    \E t, u \in Tasks :
        /\ t # u
        /\ tasks[t].op = "set_ana_state" /\ tasks[t].pc = "done"
        /\ tasks[t].called_at = "Active" /\ IsErr(tasks[t].res)
        /\ tasks[u].op = "set_ana_state" /\ tasks[u].pc = "done"
        /\ tasks[u].called_at = "Paused" /\ tasks[u].res = Ok(NULL)
        /\ heap[tasks[u].ss].ana_state = tasks[u].arg[1]


\* C32: every call of start, stop, pause or resume returns in the end, as long
\* as the target fires the callback of every request it accepted: the retry
\* loop on EBUSY ends, and no call waits for the callback of a request the
\* target refused.
InLifecycleCall(t) ==
    tasks[t].op \in LifecycleOps /\ tasks[t].pc \notin {"idle", "done"}
LifecycleReturned(t) ==
    tasks[t].pc = "done" /\ tasks[t].res # NoRes
C32_LifecycleReturns ==
    \A t \in Tasks : InLifecycleCall(t) ~> LifecycleReturned(t)
C32_Witness ==
    \E t, u \in Tasks :
        /\ t # u
        /\ tasks[t].op \in LifecycleOps /\ LifecycleReturned(t)
        /\ AllBusy(tasks[t].rcs) /\ Len(tasks[t].rcs) = MaxRetries + 1
        /\ ~tasks[t].waited
        /\ tasks[u].op \in LifecycleOps /\ LifecycleReturned(u)
        /\ tasks[u].waited /\ Len(tasks[u].rcs) > 1


\* C33: whatever start, stop, pause and resume were run on a subsystem, its
\* bound listeners are none or the replica-port transport id alone; a bound
\* listener stays bound until the subsystem is destroyed, and no listener is
\* removed while the subsystem is Active.
OnlyReplicaPort ==
    \A s \in Ptrs : heap[s].listeners \in {{}, {trid_replica}}
ListenersStay ==
    \A s \in Ptrs :
        /\ heap[s].alloc = "live" /\ heap'[s].alloc = "live" =>
              heap[s].listeners \subseteq heap'[s].listeners
        /\ heap[s].state = "Active" /\ ~heap[s].destroying =>
              heap[s].listeners \subseteq heap'[s].listeners
C33_ListenersBound == []OnlyReplicaPort /\ [][ListenersStay]_vars
C33_Witness ==
    \E s \in Ptrs, t \in Tasks :
        /\ heap[s].alloc = "live" /\ ~heap[s].destroying
        /\ heap[s].state = "Inactive"
        /\ heap[s].listeners = {trid_replica}
        /\ tasks[t].op = "start" /\ tasks[t].ss = s
        /\ tasks[t].pc = "listen_wait" /\ tasks[t].fired /\ tasks[t].cbst = 0


\* C34: two set_allowed_hosts calls with hosts to allow overlap on one
\* subsystem, the second beginning while the first is suspended in
\* disconnect_host: once both have returned Ok, every host of the argument of
\* the call that began last is allowed.
ReturnedOk(t) ==
    /\ tasks[t].op = "set_allowed_hosts"
    /\ tasks[t].arg # <<>>
    /\ tasks[t].pc = "done"
    /\ tasks[t].res.kind = "Ok"
C34_LastCallWins ==
    \A t, u \in Tasks :
        /\ t # u
        /\ tasks[t].ss = tasks[u].ss
        /\ ReturnedOk(t) /\ ~tasks[t].after
        /\ ReturnedOk(u) /\ tasks[u].after
        => Range(tasks[u].arg) \subseteq Range(allowed_hosts(heap, tasks[u].ss))

====
